---- MODULE Spec2Model ----
(***************************************************************************)
(* Model of the nutrition accounting engine of diet-agent-telegram:        *)
(* the SQLite-backed DietDatabase (meals ledger, user_config goal store,   *)
(* retention purge), the webhook handlers that drive it,                   *)
(* and the CalorieCalculator that resolves an analysis to calories.        *)
(*                                                                         *)
(* The specifications share the state:                                     *)
(*   Spec         - the deployed bot: its handlers and endpoints, each run *)
(*                  to completion, on a calendar that starts on StartDate. *)
(*   SpecPurge    - the DietDatabase methods called directly, with the     *)
(*                  month of the year and months_to_keep drawn from their  *)
(*                  whole range, to exercise the retention arithmetic.     *)
(*   SpecSteps    - two photo messages handled by two threads, their       *)
(*                  database calls interleaving, while the clock runs.     *)
(*   SpecFrame    - the handlers that write the data of one user.          *)
(*   SpecFault    - the handlers that write, with the database failing.    *)
(*   SpecRemoval  - meals recorded over the months and then removed by the *)
(*                  purge or by /clear_my_data.                            *)
(*   SpecReport   - meals recorded over the last days of a month and the   *)
(*                  first of the next, and the monthly report asked for.   *)
(*   SpecMidnight - the calls of one photo message with midnight passing   *)
(*                  between them.                                          *)
(*   SpecPurgeFault - purge_old_data with a step that raises.              *)
(*   SpecResolver - calculate_calories applied to every analysis of a      *)
(*                  bounded shape.                                         *)
(***************************************************************************)
EXTENDS Integers, Sequences, FiniteSets, TLC

VARIABLES
    meals,        \* table meals, in rowid order
    next_id,      \* AUTOINCREMENT counter of meals.id
    user_config,  \* table user_config, a set of rows
    today,        \* date.today()
    tod,          \* time of day of datetime.now()
    elapsed,      \* number of months or days passed (bounds the run)
    last,         \* what the most recent operation returned / replied
    inflight      \* photo messages being handled, by worker thread

vars == <<meals, next_id, user_config, today, tod, elapsed, last, inflight>>

(***************************** bounds ***************************************)
MaxMeals == 2          \* rows ever inserted into meals
MaxElapsed == 3        \* months that pass in a run of Spec
MaxPurgeElapsed == 1   \* months that pass in a run of SpecPurge
MaxMonthsToKeep == 14  \* largest months_to_keep tried in SpecPurge
MaxFrameElapsed == 1   \* months that pass in a run of SpecFrame
MaxFoods == 2          \* foods in an analysis given to the resolver
MaxTod == 1            \* ticks of the clock in a run of SpecSteps
MaxReportMeals == 3    \* rows inserted in a run of SpecReport
MaxReportDays == 3     \* days that pass in a run of SpecReport
MaxMidnights == 1      \* days that pass in a run of SpecMidnight

(***************************** inputs ***************************************)
Users == {1, 2}
Calories == {400, 480}                 \* calories a meal resolves to
Workers == {1, 2}                      \* threads that serve requests
GoalInputs == {799, 800, 5000, 5001}   \* arguments of /setmeta
PurgeCalories == {400}
PurgeGoals == {800}
PurgeWeights == {"lose"}
StepUsers == {1}                       \* users whose requests interleave
StartYear == 2024
StartDay == 15
StartDate == [year |-> 2024, month |-> 12, day |-> 31]
PurgeFaultMonths == {0, 2, 13}         \* months_to_keep in SpecPurgeFault
ReportPhotos == {<<1, 80>>, <<1, 720>>, <<2, 80>>}  \* user and calories of the meals in SpecReport
ReportGoals == {800}                   \* arguments of /setmeta in SpecReport
ReportStart == [year |-> 2025, month |-> 1, day |-> 29]
ReportMonths == {[year |-> 2025, month |-> 1, day |-> 15],
                 [year |-> 2025, month |-> 2, day |-> 15]}

None == [is_none |-> TRUE]

\* no photo message is being handled by the worker
Idle == [pc |-> "idle"]

(***************************** dates ****************************************)
IsLeap(y) == (y % 4 = 0 /\ y % 100 # 0) \/ y % 400 = 0

DaysInMonth(y, m) ==
    IF m = 2 THEN (IF IsLeap(y) THEN 29 ELSE 28)
    ELSE IF m \in {4, 6, 9, 11} THEN 30 ELSE 31

\* date.isoformat(): "YYYY-MM-DD"; the fixed-width text orders like this number
isoformat(d) == d.year * 10000 + d.month * 100 + d.day

\* date.replace(year=, month=, day=): ValueError when the fields are no date
date_replace(d, y, m, dd) ==
    IF y >= 1 /\ m \in 1..12 /\ dd \in 1..DaysInMonth(y, m)
    THEN [ok |-> TRUE, date |-> [year |-> y, month |-> m, day |-> dd]]
    ELSE [ok |-> FALSE, error |-> "ValueError"]

NextDay(d) ==
    IF d.day < DaysInMonth(d.year, d.month)
    THEN [d EXCEPT !.day = d.day + 1]
    ELSE IF d.month < 12
         THEN [year |-> d.year, month |-> d.month + 1, day |-> 1]
         ELSE [year |-> d.year + 1, month |-> 1, day |-> 1]

FirstOfNextMonth(d) ==
    IF d.month < 12
    THEN [year |-> d.year, month |-> d.month + 1, day |-> 1]
    ELSE [year |-> d.year + 1, month |-> 1, day |-> 1]

(***************************** sequences ************************************)
RECURSIVE SumCalories(_)
SumCalories(rows) ==
    IF rows = <<>> THEN 0
    ELSE rows[1].total_calories + SumCalories(Tail(rows))

\* sum(row[column] for row in rows)
RECURSIVE SumColumn(_, _)
SumColumn(rows, column) ==
    IF rows = <<>> THEN 0
    ELSE rows[1][column] + SumColumn(Tail(rows), column)

\* datetime text "YYYY-MM-DDTHH:MM:SS" orders by date, then by time
DatetimeLE(a, b) == a[1] < b[1] \/ (a[1] = b[1] /\ a[2] <= b[2])

RECURSIVE InsertByDatetime(_, _)
InsertByDatetime(sorted, row) ==
    IF sorted = <<>> THEN <<row>>
    ELSE IF DatetimeLE(sorted[Len(sorted)].datetime, row.datetime)
         THEN Append(sorted, row)
         ELSE Append(InsertByDatetime(SubSeq(sorted, 1, Len(sorted) - 1), row),
                     sorted[Len(sorted)])

\* ORDER BY datetime
RECURSIVE OrderByDatetime(_)
OrderByDatetime(rows) ==
    IF rows = <<>> THEN <<>>
    ELSE InsertByDatetime(OrderByDatetime(SubSeq(rows, 1, Len(rows) - 1)),
                          rows[Len(rows)])

(***************************** Nutrition Resolver ***************************)
\* A food analysis is a record that holds only the keys the dict holds, so
\* that 'key in d' is key \in DOMAIN d.  Nutrition figures and table values
\* are in tenths (kcal or g), portions in tenths of a gram, confidences in
\* percent, food names are sequences of characters.  Sums are carried in
\* millionths, in which every product of the fallback path is exact.
Micro == 1000000

FromTenths(t) == t * 100000

\* d.get(key, default)
Get(d, key, default) == IF key \in DOMAIN d THEN d[key] ELSE default

\* round(x) and round(x, 1) of x = n / unit: to the nearest, ties to even
RoundHalfEven(n, unit) ==
    LET q == n \div unit
        r == n % unit
    IN IF 2 * r < unit THEN q
       ELSE IF 2 * r > unit THEN q + 1
       ELSE IF q % 2 = 0 THEN q ELSE q + 1

\* a in b, for strings
IsSubstring(a, b) ==
    \E i \in 0..(Len(b) - Len(a)) : SubSeq(b, i + 1, i + Len(a)) = a

\* str.lower()
lower(name) ==
    [i \in 1..Len(name) |->
        IF name[i] = "P" THEN "p" ELSE IF name[i] = "A" THEN "a"
        ELSE IF name[i] = "N" THEN "n" ELSE name[i]]

\* entries of self.calorie_database, in the order of the dict
calorie_database ==
    << [key |-> <<"p","o","l","l","o">>,
        calories |-> 1650, protein |-> 310, carbs |-> 0, fat |-> 36],
       [key |-> <<"p","a","n">>,
        calories |-> 2650, protein |-> 90, carbs |-> 490, fat |-> 32],
       [key |-> <<"p","a","p","a">>,
        calories |-> 770, protein |-> 20, carbs |-> 170, fat |-> 1],
       [key |-> <<"e","m","p","a","n","a","d","a">>,
        calories |-> 2450, protein |-> 85, carbs |-> 240, fat |-> 132] >>

\* entries of self.typical_portions
typical_portions ==
    << [key |-> <<"p","o","l","l","o">>, grams |-> 1500],
       [key |-> <<"p","a","n">>, grams |-> 300],
       [key |-> <<"p","a","p","a">>, grams |-> 1500] >>

\* _find_nutrition_info: the exact key, else the first key of the dict that
\* is contained in the name or contains it, else None
_find_nutrition_info(food_name) ==
    LET exact == {i \in 1..Len(calorie_database) :
                     calorie_database[i].key = food_name}
        partial == {i \in 1..Len(calorie_database) :
                       \/ IsSubstring(calorie_database[i].key, food_name)
                       \/ IsSubstring(food_name, calorie_database[i].key)}
    IN IF exact # {}
       THEN <<calorie_database[CHOOSE i \in exact : TRUE]>>
       ELSE IF partial # {}
            THEN <<calorie_database[CHOOSE i \in partial :
                                       \A j \in partial : i <= j]>>
            ELSE <<>>

\* _estimate_portion_size; the description is held as the numbers that
\* re.findall(r'\d+') finds in it and the listed words it contains
_estimate_portion_size(food_name, portion_description) ==
    LET known == {i \in 1..Len(typical_portions) :
                     typical_portions[i].key = food_name}
        default_portion == IF known # {}
                           THEN typical_portions[CHOOSE i \in known : TRUE].grams
                           ELSE 1000
        numbers == portion_description.numbers
        words == portion_description.words
        quantity == numbers[1]
    IN IF numbers = <<>> /\ words = {} THEN default_portion
       ELSE IF numbers # <<>>
       THEN IF IsSubstring(<<"g","a","l","l","e","t","a">>, food_name)
               \/ IsSubstring(<<"c","o","o","k","i","e">>, food_name)
            THEN default_portion * quantity
            ELSE default_portion * (IF quantity < 3 THEN quantity ELSE 3)
       ELSE IF words \cap {"dos", "par", "pareja"} # {} THEN default_portion * 2
       ELSE IF "tres" \in words THEN default_portion * 3
       ELSE IF "cuatro" \in words THEN default_portion * 4
       ELSE IF "cinco" \in words THEN default_portion * 5
       ELSE IF words \cap {"pequeño", "pequeña", "mini"} # {}
            THEN (default_portion * 7) \div 10
       ELSE IF words \cap {"grande", "gran", "jumbo"} # {}
            THEN (default_portion * 15) \div 10
       ELSE IF words \cap {"muy grande", "enorme", "gigante"} # {}
            THEN default_portion * 2
       ELSE default_portion

\* _generate_tips, of figures in millionths
_generate_tips(calories, protein, carbs, fat) ==
    LET tips ==
            (IF calories > 800 * Micro THEN <<"alta en calorias">>
             ELSE IF calories < 200 * Micro THEN <<"baja en calorias">>
             ELSE <<>>)
         \o (IF protein < 10 * Micro THEN <<"mas proteina">>
             ELSE IF protein > 40 * Micro THEN <<"excelente proteina">>
             ELSE <<>>)
         \o (IF carbs > 60 * Micro THEN <<"alto en carbohidratos">> ELSE <<>>)
         \o (IF fat > 30 * Micro THEN <<"alto en grasas">> ELSE <<>>)
    IN IF tips = <<>> THEN <<"bien balanceada">> ELSE tips

_empty_result ==
    [total_calories |-> 0,
     breakdown |-> [Proteina |-> 0, Carbohidratos |-> 0, Grasas |-> 0],
     identified_foods |-> <<>>,
     unidentified_foods |-> <<>>,
     tips |-> <<"no se pudo analizar">>]

\* the loop over the foods when a food carries its own nutrition
RECURSIVE SumIndividual(_)
SumIndividual(foods) ==
    IF foods = <<>>
    THEN [calories |-> 0, protein |-> 0, carbs |-> 0, fat |-> 0,
          identified_foods |-> <<>>, unidentified_foods |-> <<>>]
    ELSE LET acc == SumIndividual(SubSeq(foods, 1, Len(foods) - 1))
             food == foods[Len(foods)]
         IN IF "nutrition" \in DOMAIN food
            THEN LET nutrition == food.nutrition
                     calories == Get(nutrition, "calories", 0)
                 IN [calories |-> acc.calories + FromTenths(calories),
                     protein |-> acc.protein
                                   + FromTenths(Get(nutrition, "protein", 0)),
                     carbs |-> acc.carbs
                                   + FromTenths(Get(nutrition, "carbs", 0)),
                     fat |-> acc.fat + FromTenths(Get(nutrition, "fat", 0)),
                     identified_foods |-> Append(acc.identified_foods,
                         [name |-> food.name,
                          calories |-> RoundHalfEven(calories, 10),
                          portion_grams |-> Get(food, "estimated_grams", 0),
                          units_count |-> Get(food, "units_count", 0),
                          confidence |-> Get(food, "confidence", 100)]),
                     unidentified_foods |-> acc.unidentified_foods]
            ELSE [acc EXCEPT !.unidentified_foods = Append(@, food.name)]

\* the loop over the foods when no food carries nutrition: the local table
RECURSIVE SumLocal(_)
SumLocal(foods) ==
    IF foods = <<>>
    THEN [calories |-> 0, protein |-> 0, carbs |-> 0, fat |-> 0,
          identified_foods |-> <<>>, unidentified_foods |-> <<>>]
    ELSE LET acc == SumLocal(SubSeq(foods, 1, Len(foods) - 1))
             food == foods[Len(foods)]
             food_name == lower(food.name)
             confidence == Get(food, "confidence", 0)
             nutrition_info == _find_nutrition_info(food_name)
         IN IF nutrition_info # <<>>
            THEN LET portion_grams == _estimate_portion_size(food_name,
                         Get(food, "portion_size",
                             [numbers |-> <<>>, words |-> {}]))
                     calories == nutrition_info[1].calories * portion_grams
                                     * confidence
                 IN [calories |-> acc.calories + calories,
                     protein |-> acc.protein + nutrition_info[1].protein
                                     * portion_grams * confidence,
                     carbs |-> acc.carbs + nutrition_info[1].carbs
                                     * portion_grams * confidence,
                     fat |-> acc.fat + nutrition_info[1].fat
                                     * portion_grams * confidence,
                     identified_foods |-> Append(acc.identified_foods,
                         [name |-> food.name,
                          calories |-> RoundHalfEven(calories, Micro),
                          portion_grams |-> portion_grams,
                          confidence |-> confidence]),
                     unidentified_foods |-> acc.unidentified_foods]
            ELSE [acc EXCEPT
                    !.calories = @ + 50 * Micro,
                    !.identified_foods = Append(@,
                         [name |-> food.name, calories |-> 50,
                          portion_grams |-> 0, confidence |-> confidence]),
                    !.unidentified_foods = Append(@, food.name)]

\* calculate_calories when total_nutrition is in the analysis
TotalNutritionResult(food_analysis) ==
    LET openai_nutrition == food_analysis.total_nutrition
        foods == food_analysis.foods
    IN [total_calories |->
            RoundHalfEven(Get(openai_nutrition, "calories", 0), 10),
        breakdown |->
            [Proteina |-> Get(openai_nutrition, "protein", 0),
             Carbohidratos |-> Get(openai_nutrition, "carbs", 0),
             Grasas |-> Get(openai_nutrition, "fat", 0)],
        identified_foods |->
            [i \in 1..Len(foods) |->
                [name |-> foods[i].name,
                 calories |-> Get(Get(foods[i], "nutrition", <<>>),
                                  "calories", 0),
                 portion_grams |-> Get(foods[i], "estimated_grams", 0),
                 units_count |-> Get(foods[i], "units_count", 0),
                 confidence |-> Get(foods[i], "confidence", 100)]],
        unidentified_foods |-> <<>>,
        tips |-> _generate_tips(
            FromTenths(Get(openai_nutrition, "calories", 0)),
            FromTenths(Get(openai_nutrition, "protein", 0)),
            FromTenths(Get(openai_nutrition, "carbs", 0)),
            FromTenths(Get(openai_nutrition, "fat", 0))),
        source |-> "OpenAI"]

\* calculate_calories when it is not: the figures of the foods, or the
\* local table when no food has figures
FoodsResult(food_analysis) ==
    LET foods == food_analysis.foods
        has_individual_nutrition ==
            \E i \in 1..Len(foods) : "nutrition" \in DOMAIN foods[i]
        sums == IF has_individual_nutrition
                THEN SumIndividual(foods)
                ELSE SumLocal(foods)
        total_calories ==
            sums.calories + Len(sums.unidentified_foods) * 50 * Micro
    IN [total_calories |-> RoundHalfEven(total_calories, Micro),
        breakdown |->
            [Proteina |-> RoundHalfEven(sums.protein, Micro \div 10),
             Carbohidratos |-> RoundHalfEven(sums.carbs, Micro \div 10),
             Grasas |-> RoundHalfEven(sums.fat, Micro \div 10)],
        identified_foods |-> sums.identified_foods,
        unidentified_foods |-> sums.unidentified_foods,
        source |-> IF has_individual_nutrition
                   THEN "OpenAI + Base local" ELSE "Base local",
        tips |-> _generate_tips(total_calories, sums.protein,
                                sums.carbs, sums.fat)]

\* calculate_calories that prefers the figures of the foods to total_nutrition
calculate_caloriesFoodsFirst(food_analysis) ==
    IF DOMAIN food_analysis = {} \/ "foods" \notin DOMAIN food_analysis
    THEN _empty_result
    ELSE IF \E i \in 1..Len(food_analysis.foods) :
                "name" \notin DOMAIN food_analysis.foods[i]
    THEN [raised |-> "KeyError"]
    ELSE IF \E i \in 1..Len(food_analysis.foods) :
                "nutrition" \in DOMAIN food_analysis.foods[i]
    THEN FoodsResult(food_analysis)
    ELSE IF "total_nutrition" \in DOMAIN food_analysis
    THEN TotalNutritionResult(food_analysis)
    ELSE FoodsResult(food_analysis)

\* calculate_calories.  total_calories is in kcal, the breakdown texts are
\* one-decimal numbers held in tenths of a gram.  Every branch reads
\* food['name'] of every food, which raises KeyError when a food has none.
calculate_calories(food_analysis) ==
    IF DOMAIN food_analysis = {} \/ "foods" \notin DOMAIN food_analysis
    THEN _empty_result
    ELSE IF \E i \in 1..Len(food_analysis.foods) :
                "name" \notin DOMAIN food_analysis.foods[i]
    THEN [raised |-> "KeyError"]
    ELSE IF "total_nutrition" \in DOMAIN food_analysis
    THEN TotalNutritionResult(food_analysis)
    ELSE FoodsResult(food_analysis)

(***************************** Meal Ledger **********************************)
\* the text joined from the names and confidences of the foods
foods_text(foods) ==
    [i \in 1..Len(foods) |-> <<foods[i].name, Get(foods[i], "confidence", 0)>>]

\* save_meal that drops a meal the user already has on that date with the
\* same calories
save_mealDedup(ms, id, user_id, d, t, foods, total_calories, total_protein, total_carbs, total_fat) ==
    IF \E i \in 1..Len(ms) : /\ ms[i].user_id = user_id
                             /\ ms[i].date = isoformat(d)
                             /\ ms[i].total_calories = total_calories
    THEN ms
    ELSE Append(ms, [id |-> id, user_id |-> user_id, date |-> isoformat(d),
                     datetime |-> <<isoformat(d), t>>,
                     foods_identified |-> foods_text(foods),
                     total_calories |-> total_calories,
                     total_protein |-> total_protein,
                     total_carbs |-> total_carbs,
                     total_fat |-> total_fat])

\* save_meal that adds the meal to the row the user has on that date
save_mealMerge(ms, id, user_id, d, t, foods, total_calories, total_protein, total_carbs, total_fat) ==
    LET same == {i \in 1..Len(ms) : /\ ms[i].user_id = user_id
                                    /\ ms[i].date = isoformat(d)}
    IN IF same # {}
       THEN [i \in 1..Len(ms) |->
               IF i \in same
               THEN [ms[i] EXCEPT
                       !.datetime = <<isoformat(d), t>>,
                       !.total_calories = @ + total_calories,
                       !.total_protein = @ + total_protein,
                       !.total_carbs = @ + total_carbs,
                       !.total_fat = @ + total_fat]
               ELSE ms[i]]
       ELSE Append(ms, [id |-> id, user_id |-> user_id, date |-> isoformat(d),
                        datetime |-> <<isoformat(d), t>>,
                        foods_identified |-> foods_text(foods),
                        total_calories |-> total_calories,
                        total_protein |-> total_protein,
                        total_carbs |-> total_carbs,
                        total_fat |-> total_fat])

\* INSERT INTO meals (user_id, date, datetime, foods_identified,
\*                    total_calories, total_protein, total_carbs, total_fat, ...)
\* the macros are stored in tenths of a gram
save_meal(ms, id, user_id, d, t, foods, total_calories, total_protein, total_carbs, total_fat) ==
    Append(ms, [id |-> id, user_id |-> user_id, date |-> isoformat(d),
                datetime |-> <<isoformat(d), t>>,
                foods_identified |-> foods_text(foods),
                total_calories |-> total_calories,
                total_protein |-> total_protein,
                total_carbs |-> total_carbs,
                total_fat |-> total_fat])

\* datetime.strftime("%H:%M"): the time of day without its seconds
TicksPerMinute == 2

strftime(t) == t \div TicksPerMinute

\* DailyRows without the date in the WHERE clause
DailyRowsAnyDate(ms, user_id, d) ==
    OrderByDatetime(SelectSeq(ms, LAMBDA m : m.user_id = user_id))

\* SELECT ... FROM meals WHERE user_id = ? AND date = ? ORDER BY datetime
DailyRows(ms, user_id, d) ==
    OrderByDatetime(SelectSeq(ms,
        LAMBDA m : m.user_id = user_id /\ m.date = isoformat(d)))

\* get_daily_calories that takes last_meal_time from the last meal of the
\* user on any date
get_daily_caloriesLastAnyDate(ms, user_id, d) ==
    LET rows == DailyRows(ms, user_id, d)
        any == DailyRowsAnyDate(ms, user_id, d)
    IN [date |-> isoformat(d),
        total_calories |-> SumCalories(rows),
        total_protein |-> SumColumn(rows, "total_protein"),
        total_carbs |-> SumColumn(rows, "total_carbs"),
        total_fat |-> SumColumn(rows, "total_fat"),
        meal_count |-> Len(rows),
        last_meal_time |-> IF any # <<>>
                           THEN <<strftime(any[Len(any)].datetime[2])>>
                           ELSE <<>>,
        meals |-> [i \in 1..Len(rows) |->
                      [time |-> strftime(rows[i].datetime[2]),
                       foods |-> rows[i].foods_identified,
                       calories |-> rows[i].total_calories,
                       protein |-> rows[i].total_protein,
                       carbs |-> rows[i].total_carbs,
                       fat |-> rows[i].total_fat]]]

\* last_meal_time is a sequence: empty for None, else the one time.  The
\* macro sums are sums of one-decimal numbers, which round(_, 1) leaves alone.
get_daily_calories(ms, user_id, d) ==
    LET rows == DailyRows(ms, user_id, d)
    IN [date |-> isoformat(d),
        total_calories |-> SumCalories(rows),
        total_protein |-> SumColumn(rows, "total_protein"),
        total_carbs |-> SumColumn(rows, "total_carbs"),
        total_fat |-> SumColumn(rows, "total_fat"),
        meal_count |-> Len(rows),
        last_meal_time |-> IF rows # <<>>
                           THEN <<strftime(rows[Len(rows)].datetime[2])>>
                           ELSE <<>>,
        meals |-> [i \in 1..Len(rows) |->
                      [time |-> strftime(rows[i].datetime[2]),
                       foods |-> rows[i].foods_identified,
                       calories |-> rows[i].total_calories,
                       protein |-> rows[i].total_protein,
                       carbs |-> rows[i].total_carbs,
                       fat |-> rows[i].total_fat]]]

\* what get_daily_calories returns when the database raises
get_daily_caloriesFailed(d) ==
    [date |-> isoformat(d),
     total_calories |-> 0,
     total_protein |-> 0,
     total_carbs |-> 0,
     total_fat |-> 0,
     meal_count |-> 0,
     last_meal_time |-> <<>>,
     meals |-> <<>>]

(***************************** Goal Tracker *********************************)
\* set_daily_goal as a plain INSERT into a table without the primary key
set_daily_goalInsert(cfg, user_id, calorie_goal, weight_goal) ==
    cfg \cup {[user_id |-> user_id, daily_calorie_goal |-> calorie_goal,
               weight_goal |-> weight_goal]}

\* INSERT OR REPLACE INTO user_config (user_id, daily_calorie_goal, weight_goal, ...)
\* user_id is the PRIMARY KEY: the row of the same user is replaced
set_daily_goal(cfg, user_id, calorie_goal, weight_goal) ==
    {c \in cfg : c.user_id # user_id}
        \cup {[user_id |-> user_id, daily_calorie_goal |-> calorie_goal,
               weight_goal |-> weight_goal]}

\* SELECT ... FROM user_config WHERE user_id = ?   fetchone()
get_user_goal(cfg, user_id) ==
    LET rows == {c \in cfg : c.user_id = user_id}
    IN IF rows = {} THEN None
       ELSE LET result == CHOOSE c \in rows : TRUE
            IN [is_none |-> FALSE,
                daily_calorie_goal |-> result.daily_calorie_goal,
                weight_goal |-> result.weight_goal]

\* WithinTenPercent with < for <=
WithinTenPercentStrict(projected_calories, daily_goal) ==
    10 * projected_calories < 11 * daily_goal

\* projected_calories <= daily_goal * 1.1 in binary floating point: for every
\* integer goal in 800..5000 and every integer projection the comparison
\* agrees with 10 * projected <= 11 * goal
WithinTenPercent(projected_calories, daily_goal) ==
    10 * projected_calories <= 11 * daily_goal

Max0(x) == IF x > 0 THEN x ELSE 0

check_calorie_limit(ms, cfg, user_id, d, new_calories) ==
    LET user_goal == get_user_goal(cfg, user_id)
    IN IF user_goal.is_none
       THEN [has_goal |-> FALSE]
       ELSE LET daily_stats == get_daily_calories(ms, user_id, d)
                current_calories == daily_stats.total_calories
                projected_calories == current_calories + new_calories
                daily_goal == user_goal.daily_calorie_goal
                status == IF projected_calories <= daily_goal THEN "safe"
                          ELSE IF WithinTenPercent(projected_calories, daily_goal)
                               THEN "warning"
                               ELSE "exceed"
            IN [has_goal |-> TRUE,
                status |-> status,
                daily_goal |-> daily_goal,
                current_calories |-> current_calories,
                new_calories |-> new_calories,
                projected_calories |-> projected_calories,
                remaining_calories |-> Max0(daily_goal - current_calories)]

(***************************** Reporting ************************************)
\* the elements of a set of numbers in ascending order
RECURSIVE Ascending(_)
Ascending(S) ==
    IF S = {} THEN <<>>
    ELSE LET least == CHOOSE x \in S : \A y \in S : x <= y
         IN <<least>> \o Ascending(S \ {least})

\* DailyData with date < ? for the current month too: today is left out
DailyDataExclusive(ms, user_id, from, to, inclusive) ==
    LET rows == SelectSeq(ms, LAMBDA m :
                    /\ m.user_id = user_id
                    /\ m.date >= from
                    /\ m.date < to)
        dates == Ascending({rows[i].date : i \in 1..Len(rows)})
    IN [k \in 1..Len(dates) |->
           LET day == SelectSeq(rows, LAMBDA m : m.date = dates[k])
           IN [date |-> dates[k],
               calories |-> SumCalories(day),
               meals |-> Len(day)]]

\* SELECT date, SUM(total_calories), COUNT(*) FROM meals
\* WHERE user_id = ? AND date >= ? AND date <op> ?  GROUP BY date ORDER BY date
\* with <op> being <= when inclusive and < otherwise
DailyData(ms, user_id, from, to, inclusive) ==
    LET rows == SelectSeq(ms, LAMBDA m :
                    /\ m.user_id = user_id
                    /\ m.date >= from
                    /\ IF inclusive THEN m.date <= to ELSE m.date < to)
        dates == Ascending({rows[i].date : i \in 1..Len(rows)})
    IN [k \in 1..Len(dates) |->
           LET day == SelectSeq(rows, LAMBDA m : m.date = dates[k])
           IN [date |-> dates[k],
               calories |-> SumCalories(day),
               meals |-> Len(day)]]

Abs(x) == IF x < 0 THEN -x ELSE x

\* BestDay without abs(): the day of the smallest signed difference
BestDaySigned(daily_data, daily_goal) ==
    daily_data[CHOOSE i \in 1..Len(daily_data) :
        /\ \A j \in 1..Len(daily_data) :
              daily_data[i].calories - daily_goal
                  <= daily_data[j].calories - daily_goal
        /\ \A j \in 1..(i - 1) :
              daily_data[j].calories - daily_goal
                  > daily_data[i].calories - daily_goal]

\* min(daily_data, key=...) and max(daily_data, key=...): the first day of
\* the smallest, of the largest distance to the goal
BestDay(daily_data, daily_goal) ==
    daily_data[CHOOSE i \in 1..Len(daily_data) :
        /\ \A j \in 1..Len(daily_data) :
              Abs(daily_data[i].calories - daily_goal)
                  <= Abs(daily_data[j].calories - daily_goal)
        /\ \A j \in 1..(i - 1) :
              Abs(daily_data[j].calories - daily_goal)
                  > Abs(daily_data[i].calories - daily_goal)]

WorstDay(daily_data, daily_goal) ==
    daily_data[CHOOSE i \in 1..Len(daily_data) :
        /\ \A j \in 1..Len(daily_data) :
              Abs(daily_data[i].calories - daily_goal)
                  >= Abs(daily_data[j].calories - daily_goal)
        /\ \A j \in 1..(i - 1) :
              Abs(daily_data[j].calories - daily_goal)
                  < Abs(daily_data[i].calories - daily_goal)]

\* a failure dict without the list of days
get_monthly_summaryFailedNoBreakdown(target_month) ==
    [month |-> target_month.year * 100 + target_month.month,
     days_in_month |-> 0,
     days_tracked |-> 0,
     total_calories |-> 0,
     total_meals |-> 0,
     avg_daily_calories |-> 0,
     daily_goal |-> None]

\* what get_monthly_summary returns when the database raises
get_monthly_summaryFailed(target_month) ==
    [month |-> target_month.year * 100 + target_month.month,
     days_in_month |-> 0,
     days_tracked |-> 0,
     total_calories |-> 0,
     total_meals |-> 0,
     avg_daily_calories |-> 0,
     daily_goal |-> None,
     daily_breakdown |-> <<>>]

\* MonthWindow that takes the whole calendar month for the current month too
MonthWindowWholeMonth(target_month, d) ==
    LET month_start == [target_month EXCEPT !.day = 1]
    IN [month_start |-> month_start,
        current |-> FALSE,
        month_end |-> FirstOfNextMonth(month_start),
        days_to_consider |-> DaysInMonth(month_start.year, month_start.month)]

\* the window of get_monthly_summary on the day d: the current month runs
\* from its first day to d inclusive, every other month to the first day of
\* the next month exclusive
MonthWindow(target_month, d) ==
    LET month_start == [target_month EXCEPT !.day = 1]
        current == target_month.year = d.year /\ target_month.month = d.month
    IN [month_start |-> month_start,
        current |-> current,
        month_end |-> IF current THEN d ELSE FirstOfNextMonth(month_start),
        days_to_consider |->
            IF current THEN d.day
            ELSE DaysInMonth(month_start.year, month_start.month)]

\* the average cut to its first decimal instead of rounded
AvgDailyCaloriesTruncated(total_calories, days_with_data) ==
    IF days_with_data > 0
    THEN (total_calories * 10) \div days_with_data ELSE 0

\* round(total_calories / days_with_data, 1) if days_with_data > 0 else 0,
\* in tenths.  round() of the float quotient is the nearest tenth; in a tie
\* it follows the double, which RoundHalfEven matches unless days_with_data
\* is 20.
AvgDailyCalories(total_calories, days_with_data) ==
    IF days_with_data > 0
    THEN RoundHalfEven(total_calories * 10, days_with_data) ELSE 0

\* GoalPerformance that counts a day of exactly 110% of the goal as over
GoalPerformanceInclusive(daily_data, daily_goal) ==
    LET has_goal == daily_goal # <<>> /\ daily_goal # <<0>>
        over == {i \in 1..Len(daily_data) :
                    /\ has_goal
                    /\ 10 * daily_data[i].calories >= 11 * daily_goal[1]}
        under == {i \in 1..Len(daily_data) :
                    /\ has_goal
                    /\ i \notin over
                    /\ 10 * daily_data[i].calories < 9 * daily_goal[1]}
        days_on_target ==
            Cardinality({i \in 1..Len(daily_data) :
                            has_goal /\ i \notin over /\ i \notin under})
    IN [days_over |-> Cardinality(over),
        days_under |-> Cardinality(under),
        days_on_target |-> days_on_target,
        success_rate |-> IF Len(daily_data) > 0
                         THEN RoundHalfEven(days_on_target * 1000,
                                            Len(daily_data))
                         ELSE 0]

\* the counters of the days over, under and on the goal and the success
\* rate in tenths of a percent.  daily_goal is a one-element sequence, or
\* the empty one for None; 'if daily_goal:' is false for None and for 0.
\* The comparisons with daily_goal * 1.1 and daily_goal * 0.9 agree with
\* the integer ones for every integer goal and total.
GoalPerformance(daily_data, daily_goal) ==
    LET has_goal == daily_goal # <<>> /\ daily_goal # <<0>>
        over == {i \in 1..Len(daily_data) :
                    /\ has_goal
                    /\ 10 * daily_data[i].calories > 11 * daily_goal[1]}
        under == {i \in 1..Len(daily_data) :
                    /\ has_goal
                    /\ i \notin over
                    /\ 10 * daily_data[i].calories < 9 * daily_goal[1]}
        days_on_target ==
            Cardinality({i \in 1..Len(daily_data) :
                            has_goal /\ i \notin over /\ i \notin under})
    IN [days_over |-> Cardinality(over),
        days_under |-> Cardinality(under),
        days_on_target |-> days_on_target,
        success_rate |-> IF Len(daily_data) > 0
                         THEN RoundHalfEven(days_on_target * 1000,
                                            Len(daily_data))
                         ELSE 0]

\* the dict get_monthly_summary returns for the rows of its query
MonthlyResult(window, daily_data, daily_goal) ==
    LET has_goal == daily_goal # <<>> /\ daily_goal # <<0>>
        total_calories == SumColumn(daily_data, "calories")
    IN [month |-> window.month_start.year * 100 + window.month_start.month,
        days_in_month |-> window.days_to_consider,
        days_tracked |-> Len(daily_data),
        total_calories |-> total_calories,
        total_meals |-> SumColumn(daily_data, "meals"),
        avg_daily_calories |-> AvgDailyCalories(total_calories, Len(daily_data)),
        daily_goal |-> IF daily_goal = <<>> THEN None
                       ELSE [is_none |-> FALSE, value |-> daily_goal[1]],
        total_goal_calories |-> IF has_goal
                                THEN daily_goal[1] * Len(daily_data) ELSE 0,
        goal_performance |-> GoalPerformance(daily_data, daily_goal),
        best_day |-> IF daily_data # <<>> /\ has_goal
                     THEN <<BestDay(daily_data, daily_goal[1])>> ELSE <<>>,
        worst_day |-> IF daily_data # <<>> /\ has_goal
                      THEN <<WorstDay(daily_data, daily_goal[1])>> ELSE <<>>,
        daily_breakdown |->
            [i \in 1..Len(daily_data) |->
                [date |-> daily_data[i].date,
                 calories |-> daily_data[i].calories,
                 meals |-> daily_data[i].meals,
                 vs_goal |-> IF has_goal
                             THEN <<daily_data[i].calories - daily_goal[1]>>
                             ELSE <<>>,
                 goal_percentage |->
                     IF has_goal
                     THEN <<RoundHalfEven(daily_data[i].calories * 1000,
                                          daily_goal[1])>>
                     ELSE <<>>]]]

\* the rows get_monthly_summary selects for a window
WindowData(ms, user_id, window) ==
    DailyData(ms, user_id, isoformat(window.month_start),
              isoformat(window.month_end), window.current)

\* user_goal['daily_calorie_goal'] if user_goal else None
DailyGoalOf(user_goal) ==
    IF user_goal.is_none THEN <<>> ELSE <<user_goal.daily_calorie_goal>>

\* get_monthly_summary(user_id, target_month) on the day d.  Numbers
\* rounded to one decimal are held in tenths, None is None, a day is a
\* one-element sequence or the empty one for None.
get_monthly_summary(ms, cfg, user_id, target_month, d) ==
    MonthlyResult(MonthWindow(target_month, d),
                  WindowData(ms, user_id, MonthWindow(target_month, d)),
                  DailyGoalOf(get_user_goal(cfg, user_id)))

(***************************** Retention ************************************)
\* purge_cutoff that goes back one month less
purge_cutoffOneLess(d, months_to_keep) ==
    IF d.month > months_to_keep - 1
    THEN date_replace(d, d.year, d.month - (months_to_keep - 1), 1)
    ELSE LET months_back == months_to_keep - 1 - d.month
         IN date_replace(d, d.year - 1, 12 - months_back, 1)

\* the cutoff date of purge_old_data
purge_cutoff(d, months_to_keep) ==
    IF d.month > months_to_keep
    THEN date_replace(d, d.year, d.month - months_to_keep, 1)
    ELSE LET months_back == months_to_keep - d.month
         IN date_replace(d, d.year - 1, 12 - months_back, 1)

\* purge_delete_meals with <= for <
purge_delete_mealsInclusive(ms, cutoff_str) ==
    SelectSeq(ms, LAMBDA m : ~(m.date <= cutoff_str))

\* DELETE FROM meals WHERE date < ?
purge_delete_meals(ms, cutoff_str) ==
    SelectSeq(ms, LAMBDA m : ~(m.date < cutoff_str))

\* purge_delete_configs without the orphan cleanup
purge_delete_configsNone(cfg, ms) == cfg

\* DELETE FROM user_config WHERE user_id NOT IN (SELECT DISTINCT user_id FROM meals)
purge_delete_configs(cfg, ms) ==
    {c \in cfg : c.user_id \in {ms[i].user_id : i \in 1..Len(ms)}}

\* purge_old_data with the orphan cleanup run before the meals are deleted
purge_old_dataStaleOrphans(ms, cfg, d, months_to_keep) ==
    LET cutoff == purge_cutoff(d, months_to_keep)
    IN IF ~cutoff.ok
       THEN [success |-> FALSE, meals_deleted |-> 0, configs_deleted |-> 0,
             meals |-> ms, user_config |-> cfg]
       ELSE LET cutoff_str == isoformat(cutoff.date)
                affected_users == {ms[i].user_id :
                                     i \in {j \in 1..Len(ms) : ms[j].date < cutoff_str}}
                cfg2 == purge_delete_configs(cfg, ms)
                ms2 == purge_delete_meals(ms, cutoff_str)
            IN [success |-> TRUE,
                cutoff_date |-> cutoff_str,
                meals_deleted |-> Len(ms) - Len(ms2),
                configs_deleted |-> Cardinality(cfg) - Cardinality(cfg2),
                affected_users |-> Cardinality(affected_users),
                months_kept |-> months_to_keep,
                meals |-> ms2, user_config |-> cfg2]

purge_old_data(ms, cfg, d, months_to_keep) ==
    LET cutoff == purge_cutoff(d, months_to_keep)
    IN IF ~cutoff.ok
       THEN [success |-> FALSE, meals_deleted |-> 0, configs_deleted |-> 0,
             meals |-> ms, user_config |-> cfg]
       ELSE LET cutoff_str == isoformat(cutoff.date)
                affected_users == {ms[i].user_id :
                                     i \in {j \in 1..Len(ms) : ms[j].date < cutoff_str}}
                ms2 == purge_delete_meals(ms, cutoff_str)
                cfg2 == purge_delete_configs(cfg, ms2)
            IN [success |-> TRUE,
                cutoff_date |-> cutoff_str,
                meals_deleted |-> Len(ms) - Len(ms2),
                configs_deleted |-> Cardinality(cfg) - Cardinality(cfg2),
                affected_users |-> Cardinality(affected_users),
                months_kept |-> months_to_keep,
                meals |-> ms2, user_config |-> cfg2]

\* the steps of purge_old_data that use the database, in their order
PurgeStatements ==
    {"connect", "count", "affected_users", "delete_meals", "delete_configs",
     "commit"}

\* purge_old_dataTry on a connection that commits every statement by itself
purge_old_dataTryAutocommit(fails_at, ms, cfg, d, months_to_keep) ==
    LET cutoff == purge_cutoff(d, months_to_keep)
        failed == [success |-> FALSE, meals_deleted |-> 0, configs_deleted |-> 0,
                   meals |-> ms, user_config |-> cfg]
    IN IF ~cutoff.ok THEN failed
       ELSE IF fails_at = "delete_configs"
       THEN [failed EXCEPT
               !.meals = purge_delete_meals(ms, isoformat(cutoff.date))]
       ELSE IF fails_at = "commit"
       THEN [failed EXCEPT
               !.meals = purge_old_data(ms, cfg, d, months_to_keep).meals,
               !.user_config =
                   purge_old_data(ms, cfg, d, months_to_keep).user_config]
       ELSE IF fails_at \in PurgeStatements THEN failed
       ELSE purge_old_data(ms, cfg, d, months_to_keep)

\* purge_old_data when the step fails_at raises ("none": no step does).  The
\* statements run inside 'with sqlite3.connect(...) as conn', whose exit
\* rolls the transaction back when an exception leaves the block, so the
\* DELETEs that ran before the failing step are undone; the except branch
\* returns the failure with 0 and 0.
purge_old_dataTry(fails_at, ms, cfg, d, months_to_keep) ==
    LET cutoff == purge_cutoff(d, months_to_keep)
        failed == [success |-> FALSE, meals_deleted |-> 0, configs_deleted |-> 0,
                   meals |-> ms, user_config |-> cfg]
    IN IF ~cutoff.ok THEN failed
       ELSE IF fails_at \in PurgeStatements THEN failed
       ELSE purge_old_data(ms, cfg, d, months_to_keep)

\* get_database_stats: the four counts are read, then
\*   db_size = cursor.fetchone()[0] if cursor.fetchone() else 0
\* fetches twice from a one-row result: the condition consumes the row and
\* the second fetchone() returns None, whose subscript raises; the except
\* branch returns the zero counts with an error
get_database_stats(ms, cfg) ==
    LET total_meals == Len(ms)
        total_users == Cardinality({ms[i].user_id : i \in 1..Len(ms)})
        dates == {ms[i].date : i \in 1..Len(ms)}
        total_configs == Cardinality(cfg)
        size_rows == <<"page_count * page_size">>
        condition_row == Head(size_rows)
        value_rows == Tail(size_rows)
    IN IF value_rows = <<>>
       THEN [total_meals |-> 0, total_users |-> 0, total_configs |-> 0,
             error |-> TRUE]
       ELSE [total_meals |-> total_meals, total_users |-> total_users,
             total_configs |-> total_configs,
             oldest_record |-> {x \in dates : \A y \in dates : x <= y},
             newest_record |-> {x \in dates : \A y \in dates : x >= y},
             error |-> FALSE]

\* delete_user_data whose second DELETE has no WHERE clause
delete_user_dataAllGoals(ms, cfg, user_id) ==
    [meals |-> SelectSeq(ms, LAMBDA m : m.user_id # user_id),
     user_config |-> {},
     deleted_count |-> Cardinality(cfg)]

\* delete_user_data: both DELETEs; rowcount is that of the last statement
delete_user_data(ms, cfg, user_id) ==
    [meals |-> SelectSeq(ms, LAMBDA m : m.user_id # user_id),
     user_config |-> {c \in cfg : c.user_id # user_id},
     deleted_count |-> Cardinality({c \in cfg : c.user_id = user_id})]

(***************************** handlers *************************************)
\* The database during one request: "up", every statement succeeds;
\* "readonly", the statements that write raise (locked file, full disk);
\* "down", every statement raises.
DbStates == {"up", "readonly", "down"}

\* get_user_goal returns None when its query raises, and check_calorie_limit
\* then answers as for a user without a goal
check_calorie_limitTry(db, ms, cfg, user_id, d, new_calories) ==
    IF db = "down" THEN [has_goal |-> FALSE]
    ELSE check_calorie_limit(ms, cfg, user_id, d, new_calories)

\* get_daily_calories with its except branch
get_daily_caloriesTry(db, ms, user_id, d) ==
    IF db = "down" THEN get_daily_caloriesFailed(d)
    ELSE get_daily_calories(ms, user_id, d)

\* set_daily_goal with its except branch: True, or False when the write raises
set_daily_goalTry(db, cfg, user_id, calorie_goal, weight_goal) ==
    IF db = "up"
    THEN [success |-> TRUE,
          user_config |-> set_daily_goal(cfg, user_id, calorie_goal, weight_goal)]
    ELSE [success |-> FALSE, user_config |-> cfg]

\* the part of analyze_food_photo that follows the resolver
AnalysisReply(ms, saved, id, calorie_info, goal_check, daily_stats) ==
    [meals |-> ms, saved |-> saved, meal_id |-> id,
     calorie_info |-> calorie_info, goal_check |-> goal_check,
     daily_stats |-> daily_stats, reply |-> "analysis"]

\* analyze_food_photo that saves the meal only when a goal is configured
analyze_food_photoNeedsGoal(db, ms, cfg, id, user_id, d, t, food_analysis) ==
    LET calorie_info == calculate_calories(food_analysis)
        goal_check == check_calorie_limitTry(db, ms, cfg, user_id, d,
                                             calorie_info.total_calories)
        breakdown == calorie_info.breakdown
        saved == db = "up" /\ goal_check.has_goal
        ms2 == IF saved
               THEN save_meal(ms, id, user_id, d, t, food_analysis.foods,
                              calorie_info.total_calories, breakdown.Proteina,
                              breakdown.Carbohidratos, breakdown.Grasas)
               ELSE ms
        daily_stats == get_daily_caloriesTry(db, ms2, user_id, d)
    IN AnalysisReply(ms2, saved, id, calorie_info, goal_check, daily_stats)

\* analyze_food_photo that lets an exceed result veto the write
analyze_food_photoVeto(db, ms, cfg, id, user_id, d, t, food_analysis) ==
    LET calorie_info == calculate_calories(food_analysis)
        goal_check == check_calorie_limitTry(db, ms, cfg, user_id, d,
                                             calorie_info.total_calories)
        breakdown == calorie_info.breakdown
        saved == db = "up" /\ ~(goal_check.has_goal /\ goal_check.status = "exceed")
        ms2 == IF saved
               THEN save_meal(ms, id, user_id, d, t, food_analysis.foods,
                              calorie_info.total_calories, breakdown.Proteina,
                              breakdown.Carbohidratos, breakdown.Grasas)
               ELSE ms
        daily_stats == get_daily_caloriesTry(db, ms2, user_id, d)
    IN AnalysisReply(ms2, saved, id, calorie_info, goal_check, daily_stats)

\* analyze_food_photo from the return of calculate_calories on: the goal is
\* checked, the meal is saved (a save that raises is logged and the handler
\* goes on), the day is read back and the summary is sent.  An exception of
\* the resolver is answered with the error message.
analyze_food_photoResolved(db, ms, cfg, id, user_id, d, t, foods, calorie_info) ==
    IF "raised" \in DOMAIN calorie_info
    THEN [meals |-> ms, saved |-> FALSE, reply |-> "error"]
    ELSE LET goal_check == check_calorie_limitTry(db, ms, cfg, user_id, d,
                               calorie_info.total_calories)
             breakdown == calorie_info.breakdown
             saved == db = "up"
             ms2 == IF saved
                    THEN save_meal(ms, id, user_id, d, t, foods,
                                   calorie_info.total_calories,
                                   breakdown.Proteina,
                                   breakdown.Carbohidratos,
                                   breakdown.Grasas)
                    ELSE ms
             daily_stats == get_daily_caloriesTry(db, ms2, user_id, d)
         IN AnalysisReply(ms2, saved, id, calorie_info, goal_check,
                          daily_stats)

\* analyze_food_photo from the analysis of the photo on: nothing is done
\* without an analysis; else the calories are resolved and the handler goes
\* on with them
analyze_food_photo(db, ms, cfg, id, user_id, d, t, food_analysis) ==
    IF DOMAIN food_analysis = {} \/ "is_none" \in DOMAIN food_analysis
    THEN [meals |-> ms, saved |-> FALSE, reply |-> "no_food"]
    ELSE analyze_food_photoResolved(db, ms, cfg, id, user_id, d, t,
                                    Get(food_analysis, "foods", <<>>),
                                    calculate_calories(food_analysis))

\* set_goal_command without the upper limit
set_goal_commandNoUpper(db, cfg, user_id, calorie_goal) ==
    IF calorie_goal < 800
    THEN [user_config |-> cfg, reply |-> "out_of_range"]
    ELSE LET r == set_daily_goalTry(db, cfg, user_id, calorie_goal, "None")
         IN [user_config |-> r.user_config,
             reply |-> IF r.success THEN "goal_set" ELSE "error_saving"]

\* set_goal_command: int(args[0]), the range check, then set_daily_goal and
\* the confirmation, or the error message when it returned False
set_goal_command(db, cfg, user_id, calorie_goal) ==
    IF calorie_goal < 800 \/ calorie_goal > 5000
    THEN [user_config |-> cfg, reply |-> "out_of_range"]
    ELSE LET r == set_daily_goalTry(db, cfg, user_id, calorie_goal, "None")
         IN [user_config |-> r.user_config,
             reply |-> IF r.success THEN "goal_set" ELSE "error_saving"]

\* get_monthly_summary with its except branch: sqlite3.connect raises inside
\* the try when the database is down
get_monthly_summaryTry(db, ms, cfg, user_id, target_month, d) ==
    IF db = "down" THEN get_monthly_summaryFailed(target_month)
    ELSE get_monthly_summary(ms, cfg, user_id, target_month, d)

\* the slice [-n:] of a list
LastN(seq, n) ==
    IF Len(seq) <= n THEN seq ELSE SubSeq(seq, Len(seq) - n + 1, Len(seq))

\* _format_monthly_response: stats[key] raises KeyError for a key the dict
\* does not hold, stats.get(key) does not.  The text is held as the values
\* it prints: the goal block, the best and worst day, the lines of the last
\* days with their indicator, the advice.
_format_monthly_response(stats) ==
    IF ~({"month", "days_tracked", "days_in_month", "total_calories",
          "total_meals", "avg_daily_calories", "daily_breakdown"}
             \subseteq DOMAIN stats)
    THEN [raised |-> "KeyError"]
    ELSE
    LET daily_goal == Get(stats, "daily_goal", None)
        has_goal == ~daily_goal.is_none /\ daily_goal.value # 0
        total_goal == Get(stats, "total_goal_calories", 0)
        performance == Get(stats, "goal_performance", <<>>)
        success_rate == Get(performance, "success_rate", 0)
        best_day == Get(stats, "best_day", <<>>)
        worst_day == Get(stats, "worst_day", <<>>)
        recent_days == LastN(LastN(stats.daily_breakdown, 7), 5)
        days_tracked == stats.days_tracked
    IN [month |-> stats.month,
        days_tracked |-> days_tracked,
        days_in_month |-> stats.days_in_month,
        total_calories |-> stats.total_calories,
        total_meals |-> stats.total_meals,
        avg_daily_calories |-> stats.avg_daily_calories,
        goal |-> IF has_goal
                 THEN <<[daily_goal |-> daily_goal.value,
                         total_goal |-> total_goal,
                         surplus_deficit |->
                             IF total_goal > 0
                             THEN <<stats.total_calories - total_goal>>
                             ELSE <<>>,
                         days_on_target |-> Get(performance, "days_on_target", 0),
                         days_over |-> Get(performance, "days_over", 0),
                         days_under |-> Get(performance, "days_under", 0),
                         success_rate |-> success_rate]>>
                 ELSE <<>>,
        best_worst |-> IF best_day # <<>> /\ worst_day # <<>>
                       THEN <<[best |-> best_day[1], worst |-> worst_day[1]]>>
                       ELSE <<>>,
        recent |-> [i \in 1..Len(recent_days) |->
                      [date |-> recent_days[i].date,
                       calories |-> recent_days[i].calories,
                       indicator |->
                           LET percentage ==
                                   Get(recent_days[i], "goal_percentage", <<>>)
                           IN IF percentage = <<>> \/ percentage = <<0>>
                              THEN "white"
                              ELSE IF percentage[1] < 900 THEN "blue"
                              ELSE IF percentage[1] <= 1100 THEN "green"
                              ELSE "red"]],
        advice |->
               (IF 2 * days_tracked < stats.days_in_month
                THEN {"registrar mas dias"} ELSE {})
          \cup (IF ~has_goal THEN {}
                ELSE IF success_rate >= 700 THEN {"excelente consistencia"}
                ELSE IF success_rate >= 500 THEN {"buen progreso"}
                ELSE {"ajustar la meta"})
          \cup (IF days_tracked = 0 \/ 2 * stats.total_meals < 5 * days_tracked
                THEN {"registrar todas las comidas"}
                ELSE IF stats.total_meals > 4 * days_tracked
                THEN {"buen registro"} ELSE {})]

\* monthly_stats_command: the summary of the current month is rendered and
\* sent; an exception of either step is answered with the error message
monthly_stats_command(db, ms, cfg, user_id, d) ==
    LET response == _format_monthly_response(
                        get_monthly_summaryTry(db, ms, cfg, user_id, d, d))
    IN IF "raised" \in DOMAIN response
       THEN [reply |-> "error"]
       ELSE [reply |-> "report", response |-> response]

(***************************** state machine ********************************)
\* what the analyzer returns for a photo of a meal of total_calories kcal: one
\* food with its own figures and the total_nutrition block of the meal
Photo(total_calories) ==
    [foods |-> << [name |-> <<"p","a","n">>, confidence |-> 90,
                   nutrition |-> [calories |-> total_calories * 10,
                                  protein |-> total_calories \div 2,
                                  carbs |-> total_calories,
                                  fat |-> total_calories \div 4]] >>,
     total_nutrition |-> [calories |-> total_calories * 10,
                          protein |-> total_calories \div 2,
                          carbs |-> total_calories,
                          fat |-> total_calories \div 4]]

\* what a purge returned; repeat is 0 unless the operation before it was a
\* purge with the same months_to_keep, and then 1 + the rows that one deleted
PurgeReport(op, r, months_to_keep, repeat) ==
    IF r.success
    THEN [op |-> op, months_to_keep |-> months_to_keep, repeat |-> repeat,
          success |-> TRUE, cutoff_date |-> r.cutoff_date,
          meals_deleted |-> r.meals_deleted,
          configs_deleted |-> r.configs_deleted,
          affected_users |-> r.affected_users]
    ELSE [op |-> op, months_to_keep |-> months_to_keep, repeat |-> repeat,
          success |-> FALSE,
          meals_deleted |-> r.meals_deleted,
          configs_deleted |-> r.configs_deleted]

\* a new database file: init_database creates the tables and purges
Init ==
    /\ meals = <<>>
    /\ next_id = 1
    /\ user_config = {}
    /\ today = StartDate
    /\ tod = 0
    /\ elapsed = 0
    /\ last = PurgeReport("init_database",
                          purge_old_data(<<>>, {}, StartDate, 2), 2, 0)
    /\ inflight = [w \in Workers |-> Idle]

InitPurge ==
    /\ meals = <<>>
    /\ next_id = 1
    /\ user_config = {}
    /\ today \in {[year |-> StartYear, month |-> m, day |-> StartDay] : m \in 1..12}
    /\ tod = 0
    /\ elapsed = 0
    /\ last = PurgeReport("init_database",
                          purge_old_data(<<>>, {}, today, 2), 2, 0)
    /\ inflight = [w \in Workers |-> Idle]

\* nothing happens until the first day of the next month
AdvanceMonth(limit) ==
    /\ elapsed < limit
    /\ today' = FirstOfNextMonth(today)
    /\ tod' = 0
    /\ elapsed' = elapsed + 1
    /\ last' = [op |-> "clock"]
    /\ UNCHANGED <<meals, next_id, user_config, inflight>>

\* a photo message of user_id that the analyzer answers with food_analysis,
\* handled to its end with the database in state db
AnalyzeFoodPhoto(db, user_id, food_analysis) ==
    /\ next_id <= MaxMeals
    /\ \E r \in {analyze_food_photo(db, meals, user_config, next_id, user_id,
                                      today, tod, food_analysis)} :
          /\ meals' = r.meals
          /\ next_id' = IF r.saved THEN next_id + 1 ELSE next_id
          /\ last' = IF r.reply = "analysis"
                     THEN [op |-> "analyze_food_photo", user_id |-> user_id,
                           db |-> db, reply |-> r.reply, saved |-> r.saved,
                           total_calories |-> r.calorie_info.total_calories,
                           meal_id |-> r.meal_id,
                           goal_check |-> r.goal_check,
                           daily_stats |-> r.daily_stats]
                     ELSE [op |-> "analyze_food_photo", user_id |-> user_id,
                           db |-> db, reply |-> r.reply, saved |-> r.saved]
    /\ UNCHANGED <<user_config, today, tod, elapsed, inflight>>

\* /setmeta calorie_goal
SetGoalCommand(db, user_id, calorie_goal) ==
    /\ LET r == set_goal_command(db, user_config, user_id, calorie_goal)
       IN /\ user_config' = r.user_config
          /\ last' = [op |-> "set_goal_command", user_id |-> user_id,
                      db |-> db,
                      calorie_goal |-> calorie_goal, reply |-> r.reply,
                      had_goal |-> ~get_user_goal(user_config, user_id).is_none]
    /\ UNCHANGED <<meals, next_id, today, tod, elapsed, inflight>>

\* /clear_my_data
ClearUserDataCommand(user_id) ==
    /\ LET r == delete_user_data(meals, user_config, user_id)
       IN /\ meals' = r.meals
          /\ user_config' = r.user_config
          /\ last' = [op |-> "clear_user_data_command", user_id |-> user_id,
                      deleted_count |-> r.deleted_count]
    /\ UNCHANGED <<next_id, today, tod, elapsed, inflight>>

\* purge_old_data(months_to_keep); POST /purge_old_data calls it with 2
PurgeOldData(months_to_keep) ==
    /\ LET r == purge_old_data(meals, user_config, today, months_to_keep)
       IN /\ meals' = r.meals
          /\ user_config' = r.user_config
          /\ last' = PurgeReport("purge_old_data", r, months_to_keep,
                                 IF /\ last.op = "purge_old_data"
                                    /\ last.months_to_keep = months_to_keep
                                 THEN 1 + last.meals_deleted + last.configs_deleted
                                 ELSE 0)
    /\ UNCHANGED <<next_id, today, tod, elapsed, inflight>>

\* the process restarts: DietDatabase() runs init_database on the file
InitDatabase ==
    /\ LET r == purge_old_data(meals, user_config, today, 2)
       IN /\ meals' = r.meals
          /\ user_config' = r.user_config
          /\ last' = PurgeReport("init_database", r, 2, 0)
    /\ UNCHANGED <<next_id, today, tod, elapsed, inflight>>

\* save_meal called directly
SaveMeal(user_id, total_calories) ==
    /\ next_id <= MaxMeals
    /\ meals' = save_meal(meals, next_id, user_id, today, tod, <<>>,
                          total_calories, 0, 0, 0)
    /\ next_id' = next_id + 1
    /\ last' = [op |-> "save_meal", user_id |-> user_id,
                total_calories |-> total_calories, meal_id |-> next_id]
    /\ UNCHANGED <<user_config, today, tod, elapsed, inflight>>

\* set_daily_goal called directly
SetDailyGoal(user_id, calorie_goal, weight_goal) ==
    /\ user_config' = set_daily_goal(user_config, user_id, calorie_goal, weight_goal)
    /\ last' = [op |-> "set_daily_goal", user_id |-> user_id,
                calorie_goal |-> calorie_goal, weight_goal |-> weight_goal,
                success |-> TRUE]
    /\ UNCHANGED <<meals, next_id, today, tod, elapsed, inflight>>

Next ==
    \/ AdvanceMonth(MaxElapsed)
    \/ \E u \in Users, x \in Calories : AnalyzeFoodPhoto("up", u, Photo(x))
    \/ \E u \in Users, g \in GoalInputs : SetGoalCommand("up", u, g)
    \/ \E u \in Users : ClearUserDataCommand(u)
    \/ PurgeOldData(2)
    \/ InitDatabase

Spec == Init /\ [][Next]_vars

NextPurge ==
    \/ AdvanceMonth(MaxPurgeElapsed)
    \/ \E u \in Users, x \in PurgeCalories : SaveMeal(u, x)
    \/ \E u \in Users, g \in PurgeGoals, w \in PurgeWeights : SetDailyGoal(u, g, w)
    \/ \E k \in 0..MaxMonthsToKeep : PurgeOldData(k)

SpecPurge == InitPurge /\ [][NextPurge]_vars

(***************************** interleaved requests *************************)
\* The web server handles each request in a thread of its own, so the
\* database calls of two photo messages interleave.  A worker goes through
\* analyze_food_photo call by call:
\*   "check"  - before check_calorie_limit
\*   "stamp"  - inside save_meal, before it reads the clock
\*   "insert" - inside save_meal, before the INSERT
\*   "read"   - before get_daily_calories and the reply
\* checked_at is the id the next row would get when the goal was checked:
\* the rows with a smaller id were committed before the check.

\* requests that will still insert a row
Inserting == {w \in Workers : inflight[w].pc \in {"check", "stamp", "insert"}}

ReceivePhoto(w, user_id, food_analysis) ==
    /\ inflight[w] = Idle
    /\ next_id + Cardinality(Inserting) <= MaxMeals
    /\ inflight' = [inflight EXCEPT ![w] =
                       [pc |-> "check", user_id |-> user_id,
                        food_analysis |-> food_analysis,
                        calorie_info |-> calculate_calories(food_analysis)]]
    /\ UNCHANGED <<meals, next_id, user_config, today, tod, elapsed, last>>

\* CheckGoal that books the meal while it checks
CheckGoalReserves(w) ==
    /\ inflight[w].pc = "check"
    /\ LET r == inflight[w]
           goal_check == check_calorie_limit(meals, user_config, r.user_id,
                                             today, r.calorie_info.total_calories)
       IN /\ inflight' = [inflight EXCEPT ![w] =
                 [pc |-> "stamp", user_id |-> r.user_id,
                  food_analysis |-> r.food_analysis,
                  calorie_info |-> r.calorie_info,
                  goal_check |-> goal_check,
                  checked_at |-> next_id]]
          /\ meals' = save_meal(meals, 0, r.user_id, today, tod, <<>>,
                                r.calorie_info.total_calories, 0, 0, 0)
    /\ UNCHANGED <<next_id, user_config, today, tod, elapsed, last>>

\* goal_check = self.database.check_calorie_limit(...)
CheckGoal(w) ==
    /\ inflight[w].pc = "check"
    /\ LET r == inflight[w]
           goal_check == check_calorie_limit(meals, user_config, r.user_id,
                                             today, r.calorie_info.total_calories)
       IN inflight' = [inflight EXCEPT ![w] =
              [pc |-> "stamp", user_id |-> r.user_id,
               food_analysis |-> r.food_analysis,
               calorie_info |-> r.calorie_info,
               goal_check |-> goal_check,
               checked_at |-> next_id]]
    /\ UNCHANGED <<meals, next_id, user_config, today, tod, elapsed, last>>

\* save_meal: now = datetime.now(); today = date.today().isoformat()
StampMeal(w) ==
    /\ inflight[w].pc = "stamp"
    /\ LET r == inflight[w]
       IN inflight' = [inflight EXCEPT ![w] =
              [pc |-> "insert", user_id |-> r.user_id,
               food_analysis |-> r.food_analysis,
               calorie_info |-> r.calorie_info,
               goal_check |-> r.goal_check,
               checked_at |-> r.checked_at,
               today |-> today, now |-> tod]]
    /\ UNCHANGED <<meals, next_id, user_config, today, tod, elapsed, last>>

\* save_meal: the INSERT and the commit
InsertMeal(w) ==
    /\ inflight[w].pc = "insert"
    /\ LET r == inflight[w]
           breakdown == r.calorie_info.breakdown
       IN /\ meals' = save_meal(meals, next_id, r.user_id, r.today, r.now,
                                r.food_analysis.foods,
                                r.calorie_info.total_calories,
                                breakdown.Proteina, breakdown.Carbohidratos,
                                breakdown.Grasas)
          /\ next_id' = next_id + 1
          /\ inflight' = [inflight EXCEPT ![w] =
                 [pc |-> "read", user_id |-> r.user_id,
                  calorie_info |-> r.calorie_info,
                  goal_check |-> r.goal_check,
                  checked_at |-> r.checked_at,
                  meal_id |-> next_id]]
    /\ UNCHANGED <<user_config, today, tod, elapsed, last>>

\* daily_stats = self.database.get_daily_calories(user_id), and the reply
ReadBack(w) ==
    /\ inflight[w].pc = "read"
    /\ LET r == inflight[w]
       IN last' = [op |-> "analyze_food_photo", user_id |-> r.user_id,
                   db |-> "up", reply |-> "analysis", saved |-> TRUE,
                   total_calories |-> r.calorie_info.total_calories,
                   meal_id |-> r.meal_id,
                   goal_check |-> r.goal_check,
                   daily_stats |-> get_daily_calories(meals, r.user_id, today)]
    /\ inflight' = [inflight EXCEPT ![w] = Idle]
    /\ UNCHANGED <<meals, next_id, user_config, today, tod, elapsed>>

\* the request is abandoned between two calls: the thread dies
Abort(w) ==
    /\ inflight[w] # Idle
    /\ inflight' = [inflight EXCEPT ![w] = Idle]
    /\ last' = [op |-> "abort", request |-> inflight[w]]
    /\ UNCHANGED <<meals, next_id, user_config, today, tod, elapsed>>

\* the clock goes on
Tick ==
    /\ tod < MaxTod
    /\ tod' = tod + 1
    /\ UNCHANGED <<meals, next_id, user_config, today, elapsed, last, inflight>>

NextSteps ==
    \/ \E w \in Workers, u \in StepUsers, x \in Calories :
          ReceivePhoto(w, u, Photo(x))
    \/ \E w \in Workers : CheckGoal(w)
    \/ \E w \in Workers : StampMeal(w)
    \/ \E w \in Workers : InsertMeal(w)
    \/ \E w \in Workers : ReadBack(w)
    \/ \E w \in Workers : Abort(w)
    \/ \E u \in StepUsers, g \in PurgeGoals : SetGoalCommand("up", u, g)
    \/ Tick

SpecSteps == Init /\ [][NextSteps]_vars

(***************************** the handlers of the users ********************)
\* the three handlers that write the data of one user, over two months
NextFrame ==
    \/ AdvanceMonth(MaxFrameElapsed)
    \/ \E u \in Users, x \in Calories : AnalyzeFoodPhoto("up", u, Photo(x))
    \/ \E u \in Users, g \in GoalInputs : SetGoalCommand("up", u, g)
    \/ \E u \in Users : ClearUserDataCommand(u)

SpecFrame == Init /\ [][NextFrame]_vars

\* photo messages over the months, the purge and /clear_my_data
NextRemoval ==
    \/ AdvanceMonth(MaxElapsed)
    \/ \E u \in Users, x \in PurgeCalories :
          AnalyzeFoodPhoto("up", u, Photo(x))
    \/ \E u \in Users : ClearUserDataCommand(u)
    \/ PurgeOldData(2)

SpecRemoval == Init /\ [][NextRemoval]_vars

(***************************** monthly report *******************************)
\* the database file is created on ReportStart
InitReport ==
    /\ meals = <<>>
    /\ next_id = 1
    /\ user_config = {}
    /\ today = ReportStart
    /\ tod = 0
    /\ elapsed = 0
    /\ last = PurgeReport("init_database",
                          purge_old_data(<<>>, {}, ReportStart, 2), 2, 0)
    /\ inflight = [w \in Workers |-> Idle]

\* midnight
AdvanceDay(limit) ==
    /\ elapsed < limit
    /\ today' = NextDay(today)
    /\ tod' = 0
    /\ elapsed' = elapsed + 1
    /\ last' = [op |-> "clock"]
    /\ UNCHANGED <<meals, next_id, user_config, inflight>>

\* a photo message of user_id for a meal of total_calories kcal, handled to
\* its end
RecordMeal(user_id, total_calories) ==
    /\ next_id <= MaxReportMeals
    /\ meals' = analyze_food_photo("up", meals, user_config, next_id, user_id,
                                   today, tod, Photo(total_calories)).meals
    /\ next_id' = next_id + 1
    /\ last' = [op |-> "analyze_food_photo", user_id |-> user_id]
    /\ UNCHANGED <<user_config, today, tod, elapsed, inflight>>

\* get_monthly_summary(user_id, target_month) called on the database
GetMonthlySummary(db, user_id, target_month) ==
    /\ last' = [op |-> "get_monthly_summary", db |-> db, user_id |-> user_id,
                target_month |-> target_month,
                summary |-> get_monthly_summaryTry(db, meals, user_config,
                                                   user_id, target_month, today)]
    /\ UNCHANGED <<meals, next_id, user_config, today, tod, elapsed, inflight>>

\* /mensual
MonthlyStatsCommand(db, user_id) ==
    /\ last' = [op |-> "monthly_stats_command", db |-> db, user_id |-> user_id,
                result |-> monthly_stats_command(db, meals, user_config,
                                                 user_id, today)]
    /\ UNCHANGED <<meals, next_id, user_config, today, tod, elapsed, inflight>>

NextReport ==
    \/ AdvanceDay(MaxReportDays)
    \/ \E p \in ReportPhotos : RecordMeal(p[1], p[2])
    \/ \E u \in StepUsers, g \in ReportGoals : SetGoalCommand("up", u, g)
    \/ \E u \in Users, t \in ReportMonths : GetMonthlySummary("up", u, t)
    \/ \E db \in DbStates, u \in StepUsers : MonthlyStatsCommand(db, u)

SpecReport == InitReport /\ [][NextReport]_vars

(***************************** requests across midnight *********************)
\* Every call of the pipeline reads the clock for itself: check_calorie_limit
\* and get_daily_calories take date.today() when they run, save_meal when it
\* stamps the row.  The day may change between two of them.
NextMidnight ==
    \/ \E w \in Workers, u \in StepUsers, x \in Calories :
          ReceivePhoto(w, u, Photo(x))
    \/ \E w \in Workers : CheckGoal(w)
    \/ \E w \in Workers : StampMeal(w)
    \/ \E w \in Workers : InsertMeal(w)
    \/ \E w \in Workers : ReadBack(w)
    \/ \E u \in StepUsers, g \in PurgeGoals : SetGoalCommand("up", u, g)
    \/ AdvanceDay(MaxMidnights)

SpecMidnight == Init /\ [][NextMidnight]_vars

(***************************** purges that fail *****************************)
\* purge_old_data(months_to_keep) with a step that raises, or none
PurgeOldDataTry(fails_at, months_to_keep) ==
    /\ LET r == purge_old_dataTry(fails_at, meals, user_config, today,
                                  months_to_keep)
       IN /\ meals' = r.meals
          /\ user_config' = r.user_config
          /\ last' = PurgeReport("purge_old_data", r, months_to_keep, 0)
    /\ UNCHANGED <<next_id, today, tod, elapsed, inflight>>

NextPurgeFault ==
    \/ AdvanceMonth(MaxPurgeElapsed)
    \/ \E u \in Users, x \in PurgeCalories : SaveMeal(u, x)
    \/ \E u \in Users, g \in PurgeGoals, w \in PurgeWeights : SetDailyGoal(u, g, w)
    \/ \E f \in PurgeStatements \cup {"none"}, k \in PurgeFaultMonths :
          PurgeOldDataTry(f, k)

SpecPurgeFault == Init /\ [][NextPurgeFault]_vars

(***************************** storage failures *****************************)
\* the handlers that write, each with the database up, read-only or down
\* while the request is handled
NextFault ==
    \/ \E db \in DbStates, u \in Users, x \in Calories :
          AnalyzeFoodPhoto(db, u, Photo(x))
    \/ \E db \in DbStates, u \in Users, g \in GoalInputs :
          SetGoalCommand(db, u, g)

SpecFault == Init /\ [][NextFault]_vars

(***************************** the resolver alone ***************************)
\* foods as the analyzer may list them: with figures of their own, without,
\* known or unknown to the local table, with a portion, without a name
FoodInputs ==
    { [name |-> <<"p","a","n">>, confidence |-> 90,
       nutrition |-> [calories |-> 1500, protein |-> 50, carbs |-> 200,
                      fat |-> 80]],
      [name |-> <<"e","m","p","a","n","a","d","a">>, confidence |-> 95,
       estimated_grams |-> 120, units_count |-> 1,
       nutrition |-> [calories |-> 2505]],
      [name |-> <<"x","y","z">>, confidence |-> 50],
      [name |-> <<"P","a","n">>, confidence |-> 80,
       portion_size |-> [numbers |-> <<2>>, words |-> {}]],
      [name |-> <<"p","o","l","l","o">>, confidence |-> 100,
       portion_size |-> [numbers |-> <<>>, words |-> {"grande"}]],
      [confidence |-> 90] }

RECURSIVE FoodLists(_)
FoodLists(n) ==
    IF n = 0 THEN {<<>>}
    ELSE LET shorter == FoodLists(n - 1)
         IN shorter \cup {Append(l, f) : l \in shorter, f \in FoodInputs}

TotalNutritionInputs ==
    { [calories |-> 4000, protein |-> 200, carbs |-> 400, fat |-> 100],
      [calories |-> 3005, protein |-> 122],
      [calories |-> 8015, protein |-> 405, carbs |-> 601, fat |-> 301] }

\* what calculate_calories may be given: nothing, a dict without foods, and
\* every list of foods with and without total_nutrition
FoodAnalyses ==
    {None, [dish_description |-> "plato"]}
        \cup {[foods |-> l] : l \in FoodLists(MaxFoods)}
        \cup {[foods |-> l, total_nutrition |-> t] :
                 l \in FoodLists(MaxFoods), t \in TotalNutritionInputs}

InitResolver ==
    /\ meals = <<>>
    /\ next_id = 1
    /\ user_config = {}
    /\ today = StartDate
    /\ tod = 0
    /\ elapsed = 0
    /\ last \in {[op |-> "analyze_image", food_analysis |-> fa] :
                    fa \in FoodAnalyses}
    /\ inflight = [w \in Workers |-> Idle]

\* calorie_info = calculate_calories(food_analysis)
CalculateCalories ==
    /\ last.op = "analyze_image"
    /\ last' = [op |-> "calculate_calories",
                food_analysis |-> last.food_analysis,
                calorie_info |-> calculate_calories(last.food_analysis)]
    /\ UNCHANGED <<meals, next_id, user_config, today, tod, elapsed, inflight>>

NextResolver == CalculateCalories

SpecResolver == InitResolver /\ [][NextResolver]_vars

(***************************** properties ***********************************)
\* date.fromisoformat, the inverse of isoformat
fromisoformat(n) ==
    [year |-> n \div 10000, month |-> (n \div 100) % 100, day |-> n % 100]

\* the rows of ms that belong to user_id and carry the date d, as a set of
\* positions, and the sum of their calories taken position by position
LedgerPositions(ms, user_id, d) ==
    {i \in 1..Len(ms) : ms[i].user_id = user_id /\ ms[i].date = isoformat(d)}

RECURSIVE CaloriesAt(_, _)
CaloriesAt(ms, positions) ==
    IF positions = {} THEN 0
    ELSE LET i == CHOOSE j \in positions : TRUE
         IN ms[i].total_calories + CaloriesAt(ms, positions \ {i})

DatesOfInterest ==
    {fromisoformat(meals[i].date) : i \in 1..Len(meals)}
        \cup {today, NextDay(today)}

Reordered(ms, p) == [i \in 1..Len(ms) |-> ms[p[i]]]

Orders(n) == {p \in [1..n -> 1..n] : \A i, j \in 1..n : i # j => p[i] # p[j]}

\* C1: the daily summary of every user and date reports the sum of the
\* calories of exactly the stored records of that user and date and their
\* number, and reports the same for every order of the stored rows
C1_DailyTotalIsLedgerSum ==
    \A u \in Users : \A d \in DatesOfInterest :
        LET summary == get_daily_calories(meals, u, d)
            positions == LedgerPositions(meals, u, d)
        IN /\ summary.total_calories = CaloriesAt(meals, positions)
           /\ summary.meal_count = Cardinality(positions)
           /\ \A p \in Orders(Len(meals)) :
                LET other == get_daily_calories(Reordered(meals, p), u, d)
                IN /\ other.total_calories = summary.total_calories
                   /\ other.meal_count = summary.meal_count

\* a user holds a meal of today and a meal of another day, of different
\* calories
C1_Witness ==
    \E u \in Users :
        /\ get_daily_calories(meals, u, today).meal_count = 1
        /\ Cardinality({i \in 1..Len(meals) : meals[i].user_id = u}) = 2
        /\ \E i, j \in 1..Len(meals) :
              meals[i].total_calories # meals[j].total_calories

\* C2: with goal G and daily total C before the meal, the check of a meal of
\* X kcal is safe iff C + X <= G, warning iff G < C + X and
\* 10 (C + X) <= 11 G, exceed iff 10 (C + X) > 11 G
C2_CheckStatus ==
    [][last'.op = "analyze_food_photo" =>
        LET u == last'.user_id
            X == last'.total_calories
            goal == get_user_goal(user_config, u)
            C == CaloriesAt(meals, LedgerPositions(meals, u, today))
            check == last'.goal_check
        IN ~goal.is_none =>
             LET G == goal.daily_calorie_goal
             IN /\ check.has_goal
                /\ check.status \in {"safe", "warning", "exceed"}
                /\ check.status = "safe" <=> C + X <= G
                /\ check.status = "warning" <=>
                       (G < C + X /\ 10 * (C + X) <= 11 * G)
                /\ check.status = "exceed" <=> 10 * (C + X) > 11 * G
                /\ check.projected_calories = C + X]_vars

\* a check answered warning at exactly 1.1 G
C2_Witness ==
    /\ last.op = "analyze_food_photo"
    /\ last.goal_check.has_goal
    /\ last.goal_check.status = "warning"
    /\ 10 * last.goal_check.projected_calories = 11 * last.goal_check.daily_goal

\* a check answered safe at exactly G
C2_WitnessAtGoal ==
    /\ last.op = "analyze_food_photo"
    /\ last.goal_check.has_goal
    /\ last.goal_check.status = "safe"
    /\ last.goal_check.projected_calories = last.goal_check.daily_goal
    /\ last.goal_check.current_calories > 0

\* the month that lies k calendar months before the month of d, on its first day
ExpectedCutoff(d, k) ==
    LET months == d.year * 12 + (d.month - 1) - k
    IN [year |-> months \div 12, month |-> (months % 12) + 1, day |-> 1]

Rows(ms) == {ms[i] : i \in 1..Len(ms)}

\* C3: a purge that directly follows a purge with the same months_to_keep
\* deletes no meal and no goal, and leaves the statistics and both tables as
\* the first purge left them
C3_PurgeIdempotent ==
    [][(last'.op = "purge_old_data" /\ last'.repeat > 0) =>
          /\ last'.meals_deleted = 0
          /\ last'.configs_deleted = 0
          /\ get_database_stats(meals', user_config')
                 = get_database_stats(meals, user_config)
          /\ meals' = meals
          /\ user_config' = user_config]_vars

\* a second purge after a purge that deleted rows, with meals left
C3_Witness ==
    /\ last.op = "purge_old_data"
    /\ last.success
    /\ last.repeat > 1
    /\ meals # <<>>

\* C4: a successful purge removes exactly the meals dated before its cutoff,
\* keeps the others in place, and reports the number removed
C4_PurgeDeletesBeforeCutoff ==
    [][(last'.op = "purge_old_data" /\ last'.success) =>
          LET cutoff == last'.cutoff_date
              old == {i \in 1..Len(meals) : meals[i].date < cutoff}
          IN /\ \A i \in 1..Len(meals) :
                   (meals[i] \in Rows(meals')) <=> (i \notin old)
             /\ Len(meals') = Len(meals) - Cardinality(old)
             /\ last'.meals_deleted = Cardinality(old)]_vars

\* a purge deleted a meal and kept a meal dated on the cutoff
C4_Witness ==
    /\ last.op = "purge_old_data"
    /\ last.success
    /\ last.meals_deleted > 0
    /\ \E i \in 1..Len(meals) : meals[i].date = last.cutoff_date

\* C5: a successful purge deletes a goal iff its user has no meal left after
\* the meals were deleted
C5_PurgeOrphanGoals ==
    [][(last'.op = "purge_old_data" /\ last'.success) =>
          LET remaining == {m.user_id : m \in Rows(meals')}
          IN /\ \A c \in user_config' : c.user_id \in remaining
             /\ \A c \in user_config :
                   c.user_id \in remaining => c \in user_config'
             /\ user_config' \subseteq user_config
             /\ last'.configs_deleted
                    = Cardinality(user_config \ user_config')]_vars

\* a purge deleted the goal of one user and kept the goal of another
C5_Witness ==
    /\ last.op = "purge_old_data"
    /\ last.success
    /\ last.configs_deleted > 0
    /\ user_config # {}

\* C6: every purge computes as cutoff the first day of the month
\* months_to_keep months before the current one, and does not fail
C6_CutoffEveryMonth ==
    last.op = "purge_old_data" =>
        /\ last.success
        /\ last.cutoff_date = isoformat(ExpectedCutoff(today, last.months_to_keep))

\* C7: /setmeta with a goal below 800 or above 5000 is rejected and leaves
\* the goal store as it was; a goal within the range is stored and confirmed
C7_SetGoalValidates ==
    [][last'.op = "set_goal_command" =>
          LET g == last'.calorie_goal
              u == last'.user_id
          IN IF g < 800 \/ g > 5000
             THEN /\ last'.reply = "out_of_range"
                  /\ user_config' = user_config
             ELSE /\ last'.reply = "goal_set"
                  /\ ~get_user_goal(user_config', u).is_none
                  /\ get_user_goal(user_config', u).daily_calorie_goal = g]_vars

\* a rejected /setmeta of a user who has a goal
C7_Witness ==
    /\ last.op = "set_goal_command"
    /\ last.reply = "out_of_range"
    /\ last.had_goal
    /\ ~get_user_goal(user_config, last.user_id).is_none

\* C8: no user has two goal rows, and after a successful /setmeta the only
\* goal of the user is the one just set
C8_OneGoalLastWriteWins ==
    /\ \A c1, c2 \in user_config : c1.user_id = c2.user_id => c1 = c2
    /\ (last.op = "set_goal_command" /\ last.reply = "goal_set") =>
          /\ get_user_goal(user_config, last.user_id)
                 = [is_none |-> FALSE,
                    daily_calorie_goal |-> last.calorie_goal,
                    weight_goal |-> "None"]
          /\ \A c \in user_config :
                 c.user_id = last.user_id =>
                     c.daily_calorie_goal = last.calorie_goal

\* a successful /setmeta of a user who had a goal before
C8_Witness ==
    /\ last.op = "set_goal_command"
    /\ last.reply = "goal_set"
    /\ last.had_goal

\* C9: for a user without a goal the check answers has_goal = false and the
\* meal is recorded; on a day that was empty the summary read back shows one
\* meal with the calories of that meal
C9_NoGoalStillRecords ==
    [][(/\ last'.op = "analyze_food_photo"
        /\ get_user_goal(user_config, last'.user_id).is_none) =>
          /\ last'.goal_check = [has_goal |-> FALSE]
          /\ \E i \in 1..Len(meals') : meals'[i].id = last'.meal_id
          /\ LedgerPositions(meals, last'.user_id, today) = {} =>
                /\ last'.daily_stats.meal_count = 1
                /\ last'.daily_stats.total_calories = last'.total_calories]_vars

\* the first meal of the day of a user without a goal
C9_Witness ==
    /\ last.op = "analyze_food_photo"
    /\ ~last.goal_check.has_goal
    /\ last.daily_stats.meal_count = 1
    /\ last.daily_stats.total_calories = last.total_calories

\* C10: the meal is appended to the ledger whatever the check answered, and
\* no stored meal is removed
C10_CheckIsAdvisory ==
    [][last'.op = "analyze_food_photo" =>
          /\ Len(meals') = Len(meals) + 1
          /\ SubSeq(meals', 1, Len(meals)) = meals
          /\ meals'[Len(meals')].id = last'.meal_id
          /\ meals'[Len(meals')].user_id = last'.user_id
          /\ meals'[Len(meals')].total_calories = last'.total_calories
          /\ meals'[Len(meals')].date = isoformat(today)]_vars

\* a meal written after the check answered exceed
C10_Witness ==
    /\ last.op = "analyze_food_photo"
    /\ last.goal_check.has_goal
    /\ last.goal_check.status = "exceed"
    /\ \E i \in 1..Len(meals) :
          meals[i].id = last.meal_id /\ meals[i].user_id = last.user_id

\* C11: the goal check of a request, and a request that is abandoned before
\* its INSERT, leave the meals, the id counter and the goals as they were
C11_CheckChangesNothing ==
    [][\A w \in Workers :
          (/\ inflight[w].pc \in {"check", "stamp", "insert"}
           /\ inflight'[w].pc \in {"stamp", "insert", "idle"}
           /\ inflight'[w].pc # inflight[w].pc) =>
              /\ meals' = meals
              /\ next_id' = next_id
              /\ user_config' = user_config]_vars

\* a request was abandoned after its check had answered, with the meal of
\* the day counted, and before its INSERT
C11_Witness ==
    /\ last.op = "abort"
    /\ last.request.pc = "stamp"
    /\ last.request.goal_check.has_goal
    /\ last.request.goal_check.current_calories > 0
    /\ Len(meals) = 1

\* C12: /clear_my_data removes every meal of the user and reports the
\* number of meals it removed
C12_DeleteAllCount ==
    [][last'.op = "clear_user_data_command" =>
          LET u == last'.user_id
              removed == {i \in 1..Len(meals) : meals[i].user_id = u}
          IN /\ \A i \in 1..Len(meals') : meals'[i].user_id # u
             /\ Len(meals') = Len(meals) - Cardinality(removed)
             /\ last'.deleted_count = Cardinality(removed)]_vars

\* C13: the INSERT of a request, whatever the other request has done
\* meanwhile, adds one row with an id no other row has, keeps the rows that
\* were there, and raises the total and the count of the user's day by the
\* calories of the meal and by one; the row of every request that has
\* inserted is in the table
C13_ConcurrentRecordsPersist ==
    [][/\ \A w \in Workers :
            (inflight[w].pc = "insert" /\ inflight'[w].pc = "read") =>
               LET r == inflight[w]
                   before == get_daily_calories(meals, r.user_id, r.today)
                   after == get_daily_calories(meals', r.user_id, r.today)
               IN /\ Len(meals') = Len(meals) + 1
                  /\ SubSeq(meals', 1, Len(meals)) = meals
                  /\ meals'[Len(meals')].id = inflight'[w].meal_id
                  /\ meals'[Len(meals')].user_id = r.user_id
                  /\ after.total_calories
                         = before.total_calories + r.calorie_info.total_calories
                  /\ after.meal_count = before.meal_count + 1
       /\ \A i, j \in 1..Len(meals') : i # j => meals'[i].id # meals'[j].id
       /\ \A w \in Workers :
            inflight'[w].pc = "read" =>
               \E i \in 1..Len(meals') :
                   /\ meals'[i].id = inflight'[w].meal_id
                   /\ meals'[i].user_id = inflight'[w].user_id
                   /\ meals'[i].total_calories
                          = inflight'[w].calorie_info.total_calories]_vars

\* two requests of one user have both inserted before either read the day
\* back, both were checked against an empty day, and the day holds both
C13_Witness ==
    /\ \A w \in Workers :
          /\ inflight[w].pc = "read"
          /\ inflight[w].goal_check.has_goal
          /\ inflight[w].goal_check.current_calories = 0
    /\ \A v, w \in Workers : inflight[v].user_id = inflight[w].user_id
    /\ \E v, w \in Workers :
          inflight[v].calorie_info.total_calories
              # inflight[w].calorie_info.total_calories
    /\ \E u \in StepUsers :
          /\ get_daily_calories(meals, u, today).meal_count = 2
          /\ get_daily_calories(meals, u, today).total_calories = 880

\* C14: a photo message, a /setmeta and a /clear_my_data of user u leave, for
\* every other user v, the daily summary of every date, the monthly summary
\* of every month and the goal as they were
C14_OtherUsersUntouched ==
    [][last'.op \in {"analyze_food_photo", "set_goal_command",
                     "clear_user_data_command"} =>
          \A v \in Users \ {last'.user_id} :
              /\ get_user_goal(user_config', v) = get_user_goal(user_config, v)
              /\ \A d \in DatesOfInterest :
                    /\ get_daily_calories(meals', v, d)
                           = get_daily_calories(meals, v, d)
                    /\ get_monthly_summary(meals', user_config', v, d, today')
                           = get_monthly_summary(meals, user_config, v, d, today)]_vars

\* a user cleared their data while the other user had a goal and a meal
C14_Witness ==
    /\ last.op = "clear_user_data_command"
    /\ \E v \in Users \ {last.user_id} :
          /\ ~get_user_goal(user_config, v).is_none
          /\ get_monthly_summary(meals, user_config, v, today, today).total_meals > 0
    /\ \A i \in 1..Len(meals) : meals[i].user_id # last.user_id

\* C15: in every step a stored meal either stays as it is, in all its
\* columns, or is gone, and it is gone only by a purge (on demand or at
\* start-up) or by /clear_my_data
C15_StoredMealImmutable ==
    [][\A i \in 1..Len(meals) :
          /\ \A j \in 1..Len(meals') :
                meals'[j].id = meals[i].id => meals'[j] = meals[i]
          /\ (\A j \in 1..Len(meals') : meals'[j].id # meals[i].id) =>
                last'.op \in {"purge_old_data", "init_database",
                              "clear_user_data_command"}]_vars

\* a meal of an earlier month is still stored, with the calories and macros
\* of its photo, after a later meal of the same user was recorded
C15_Witness ==
    /\ last.op = "analyze_food_photo"
    /\ Len(meals) = 2
    /\ meals[1].user_id = meals[2].user_id
    /\ meals[1].date < meals[2].date
    /\ meals[1].total_calories = 400
    /\ meals[1].total_protein = Photo(400).total_nutrition.protein
    /\ meals[2].total_calories = 480

\* C16: the daily summary lists the meals of the day by ascending timestamp,
\* which is the order in which they were committed (ascending id), and
\* last_meal_time is the time of day of the last of them
C16_ChronologicalIsCommitOrder ==
    \A u \in StepUsers :
        LET rows == DailyRows(meals, u, today)
            summary == get_daily_calories(meals, u, today)
        IN /\ \A i, j \in 1..Len(rows) :
                 i < j => /\ DatetimeLE(rows[i].datetime, rows[j].datetime)
                          /\ rows[i].id < rows[j].id
           /\ \A i \in 1..Len(rows) :
                 summary.meals[i].time = strftime(rows[i].datetime[2])
           /\ rows # <<>> =>
                 summary.last_meal_time = <<strftime(rows[Len(rows)].datetime[2])>>

\* C17: for an analysis with a total_nutrition block whose foods all have a
\* name, the resolved calories are those of the block (to the nearest kcal)
\* and the resolved macros are those of the block, a figure the block lacks
\* counting as 0, whatever the foods' own figures add up to
C17_TotalNutritionWins ==
    (/\ last.op = "calculate_calories"
     /\ "foods" \in DOMAIN last.food_analysis
     /\ "total_nutrition" \in DOMAIN last.food_analysis
     /\ \A i \in 1..Len(last.food_analysis.foods) :
           "name" \in DOMAIN last.food_analysis.foods[i]) =>
        LET block == last.food_analysis.total_nutrition
            result == last.calorie_info
            figure(key) == IF key \in DOMAIN block THEN block[key] ELSE 0
        IN /\ "raised" \notin DOMAIN result
           /\ 2 * result.total_calories * 10 - 2 * figure("calories") \in -10..10
           /\ figure("calories") % 10 = 0 =>
                 result.total_calories * 10 = figure("calories")
           /\ result.breakdown.Proteina = figure("protein")
           /\ result.breakdown.Carbohidratos = figure("carbs")
           /\ result.breakdown.Grasas = figure("fat")
           /\ result.unidentified_foods = <<>>

\* resolved: a block of 400 kcal over foods whose own figures add up to
\* 300 kcal
C17_Witness ==
    /\ last.op = "calculate_calories"
    /\ "total_nutrition" \in DOMAIN last.food_analysis
    /\ last.food_analysis.total_nutrition.calories = 4000
    /\ Len(last.food_analysis.foods) = 2
    /\ \A i \in 1..2 :
          /\ "nutrition" \in DOMAIN last.food_analysis.foods[i]
          /\ last.food_analysis.foods[i].nutrition.calories = 1500
    /\ last.calorie_info.total_calories = 400

\* C20: an analysis without the key foods, or with an empty list of foods, is
\* resolved without an error to 0 kcal, zero macros, no itemised food and the
\* could-not-analyse tip
C20_NoFoodsEmptyResult ==
    (/\ last.op = "calculate_calories"
     /\ \/ "foods" \notin DOMAIN last.food_analysis
        \/ last.food_analysis.foods = <<>>) =>
        LET result == last.calorie_info
        IN /\ "raised" \notin DOMAIN result
           /\ result.total_calories = 0
           /\ result.breakdown
                  = [Proteina |-> 0, Carbohidratos |-> 0, Grasas |-> 0]
           /\ result.identified_foods = <<>>
           /\ result.tips = _empty_result.tips

\* C18: for a user and a date without a stored meal the daily summary is 0
\* kcal, zero macros, no meal, no last_meal_time and an empty list of meals,
\* whatever the state of the database, also after a purge or /clear_my_data
\* removed the meals
C18_EmptyDayZeroSummary ==
    \A u \in Users : \A d \in DatesOfInterest :
        LedgerPositions(meals, u, d) = {} =>
            \A db \in DbStates :
                get_daily_caloriesTry(db, meals, u, d)
                    = [date |-> isoformat(d), total_calories |-> 0,
                       total_protein |-> 0, total_carbs |-> 0, total_fat |-> 0,
                       meal_count |-> 0, last_meal_time |-> <<>>,
                       meals |-> <<>>]

\* a purge has removed the meals of a user, who has a later meal left; the
\* day of the removed meals is empty
C18_Witness ==
    /\ last.op = "purge_old_data"
    /\ last.meals_deleted > 0
    /\ \E u \in Users :
          /\ LedgerPositions(meals, u, StartDate) = {}
          /\ \E i \in 1..Len(meals) : meals[i].user_id = u

\* C19: when the INSERT of the meal fails, the photo message is answered
\* with the failure message and not with the meal summary; when the write of
\* the goal fails, /setmeta is answered with the failure message
C19_WriteFailureReported ==
    /\ (last.op = "analyze_food_photo" /\ last.db # "up") =>
          last.reply = "error"
    /\ (/\ last.op = "set_goal_command"
        /\ last.db # "up"
        /\ last.calorie_goal \in 800..5000) =>
          last.reply = "error_saving"

\* C21 as stated: the average of the monthly summary is the total of the
\* window divided by the days tracked, exactly, and 0 without a tracked day,
\* as is then the success rate
C21_AverageIsQuotient ==
    (last.op = "get_monthly_summary" /\ last.db = "up") =>
        LET summary == last.summary
        IN /\ summary.days_tracked > 0 =>
                 summary.avg_daily_calories * summary.days_tracked
                     = 10 * summary.total_calories
           /\ summary.days_tracked = 0 =>
                 /\ summary.avg_daily_calories = 0
                 /\ summary.goal_performance.success_rate = 0

\* C21 amended: the average is the quotient rounded to one decimal, so it is
\* within 0.05 of the total of the window divided by the days tracked; it is
\* 0 without a tracked day, as is then the success rate
C21_AverageIsRoundedQuotient ==
    (last.op = "get_monthly_summary" /\ last.db = "up") =>
        LET summary == last.summary
        IN /\ summary.days_tracked > 0 =>
                 2 * Abs(summary.avg_daily_calories * summary.days_tracked
                             - 10 * summary.total_calories)
                     <= summary.days_tracked
           /\ summary.days_tracked = 0 =>
                 /\ summary.avg_daily_calories = 0
                 /\ summary.goal_performance.success_rate = 0

\* the summary of a month without a tracked day of a user who has meals in
\* another month and a goal
C21_Witness ==
    /\ last.op = "get_monthly_summary"
    /\ last.db = "up"
    /\ last.summary.days_tracked = 0
    /\ last.summary.avg_daily_calories = 0
    /\ ~last.summary.daily_goal.is_none
    /\ \E i \in 1..Len(meals) : meals[i].user_id = last.user_id

\* the summary of three tracked days whose total is not a multiple of three
C21_WitnessRounded ==
    /\ last.op = "get_monthly_summary"
    /\ last.summary.days_tracked = 3
    /\ last.summary.total_calories % 3 # 0

\* C22: when the database fails, get_monthly_summary returns the zero
\* summary (no tracked day, no calories, no meal, average 0, no goal, no
\* day in the breakdown) and /mensual renders and sends it: the report shows
\* the zeros, no goal block, no best or worst day and no day line
C22_FailureIsZeroReport ==
    /\ \A t \in ReportMonths \cup {today} : \A u \in Users :
          LET summary == get_monthly_summaryTry("down", meals, user_config,
                                                u, t, today)
          IN /\ {"days_tracked", "total_calories", "total_meals",
                 "avg_daily_calories", "daily_goal", "daily_breakdown"}
                    \subseteq DOMAIN summary
             /\ summary.days_tracked = 0
             /\ summary.total_calories = 0
             /\ summary.total_meals = 0
             /\ summary.avg_daily_calories = 0
             /\ summary.daily_goal = None
             /\ summary.daily_breakdown = <<>>
             /\ "raised" \notin DOMAIN _format_monthly_response(summary)
    /\ (last.op = "monthly_stats_command" /\ last.db = "down") =>
          /\ last.result.reply = "report"
          /\ last.result.response.days_tracked = 0
          /\ last.result.response.total_calories = 0
          /\ last.result.response.total_meals = 0
          /\ last.result.response.avg_daily_calories = 0
          /\ last.result.response.goal = <<>>
          /\ last.result.response.best_worst = <<>>
          /\ last.result.response.recent = <<>>

\* /mensual answered with the zero report while the database is down, for a
\* user with a goal and a meal of today
C22_Witness ==
    /\ last.op = "monthly_stats_command"
    /\ last.db = "down"
    /\ last.result.reply = "report"
    /\ ~get_user_goal(user_config, last.user_id).is_none
    /\ \E i \in 1..Len(meals) :
          meals[i].user_id = last.user_id /\ meals[i].date = isoformat(today)

\* C23: with a goal G the summary counts as over the tracked days of more
\* than 1.10 G, as under those of less than 0.90 G and as on target the
\* others, so the counters add up to days_tracked, and success_rate is the
\* share of the days on target in percent, to the nearest tenth; without a
\* goal the three counters are 0
C23_GoalClassification ==
    (last.op = "get_monthly_summary" /\ last.db = "up") =>
        LET summary == last.summary
            performance == summary.goal_performance
            days == summary.daily_breakdown
            user_goal == get_user_goal(user_config, last.user_id)
            G == user_goal.daily_calorie_goal
        IN IF user_goal.is_none
           THEN /\ performance.days_over = 0
                /\ performance.days_under = 0
                /\ performance.days_on_target = 0
           ELSE /\ performance.days_over =
                      Cardinality({i \in 1..Len(days) :
                                      10 * days[i].calories > 11 * G})
                /\ performance.days_under =
                      Cardinality({i \in 1..Len(days) :
                                      10 * days[i].calories < 9 * G})
                /\ performance.days_on_target =
                      Cardinality({i \in 1..Len(days) :
                                      /\ 10 * days[i].calories <= 11 * G
                                      /\ 10 * days[i].calories >= 9 * G})
                /\ performance.days_over + performance.days_under
                       + performance.days_on_target = summary.days_tracked
                /\ summary.days_tracked > 0 =>
                      2 * Abs(performance.success_rate * summary.days_tracked
                                  - 1000 * performance.days_on_target)
                          <= summary.days_tracked

\* three tracked days, one of them of exactly 0.90 G and on target, the
\* others under: the success rate is 33.3
C23_Witness ==
    /\ last.op = "get_monthly_summary"
    /\ last.db = "up"
    /\ last.summary.days_tracked = 3
    /\ last.summary.goal_performance.days_on_target = 1
    /\ last.summary.goal_performance.days_under = 2
    /\ last.summary.goal_performance.success_rate = 333
    /\ \E i \in 1..3 :
          10 * last.summary.daily_breakdown[i].calories
              = 9 * last.summary.daily_goal.value

\* a day of exactly 1.10 G is on target; a day over
C23_WitnessOnAtUpperLimit ==
    /\ last.op = "get_monthly_summary"
    /\ last.summary.days_tracked = 1
    /\ last.summary.goal_performance.days_on_target = 1
    /\ 10 * last.summary.daily_breakdown[1].calories
           = 11 * last.summary.daily_goal.value

C23_WitnessOver ==
    /\ last.op = "get_monthly_summary"
    /\ last.summary.days_tracked = 2
    /\ last.summary.goal_performance.days_over = 1
    /\ last.summary.goal_performance.days_under = 1

\* C24: with a goal G and a tracked day, best_day is a tracked day of the
\* window whose calories are nearest to G and worst_day one whose calories
\* are farthest from G; without a goal or without a tracked day both are
\* None
C24_BestAndWorstDay ==
    (last.op = "get_monthly_summary" /\ last.db = "up") =>
        LET summary == last.summary
            days == summary.daily_breakdown
            user_goal == get_user_goal(user_config, last.user_id)
            G == user_goal.daily_calorie_goal
            IsDay(day) == \E i \in 1..Len(days) :
                              /\ days[i].date = day.date
                              /\ days[i].calories = day.calories
                              /\ days[i].meals = day.meals
        IN IF user_goal.is_none \/ summary.days_tracked = 0
           THEN summary.best_day = <<>> /\ summary.worst_day = <<>>
           ELSE /\ Len(summary.best_day) = 1
                /\ Len(summary.worst_day) = 1
                /\ IsDay(summary.best_day[1])
                /\ IsDay(summary.worst_day[1])
                /\ \A i \in 1..Len(days) :
                      /\ Abs(summary.best_day[1].calories - G)
                             <= Abs(days[i].calories - G)
                      /\ Abs(summary.worst_day[1].calories - G)
                             >= Abs(days[i].calories - G)

\* three tracked days, the best nearer to the goal than the worst and
\* neither the first of the window
C24_Witness ==
    /\ last.op = "get_monthly_summary"
    /\ last.db = "up"
    /\ last.summary.days_tracked >= 2
    /\ last.summary.best_day # <<>>
    /\ last.summary.best_day[1].calories # last.summary.worst_day[1].calories
    /\ last.summary.best_day[1].date # last.summary.daily_breakdown[1].date

\* a user with tracked days and no goal: no best and no worst day
C24_WitnessNoGoal ==
    /\ last.op = "get_monthly_summary"
    /\ last.summary.days_tracked > 0
    /\ get_user_goal(user_config, last.user_id).is_none
    /\ last.summary.best_day = <<>>

\* the positions of the meals of user_id dated in the calendar month of
\* target_month and, when that is the month of today, not after today
WindowPositions(user_id, target_month) ==
    {i \in 1..Len(meals) :
        LET day == fromisoformat(meals[i].date)
        IN /\ meals[i].user_id = user_id
           /\ day.year = target_month.year
           /\ day.month = target_month.month
           /\ (target_month.year = today.year
                  /\ target_month.month = today.month) => day.day <= today.day}

\* C25: the monthly summary counts exactly the meals of the window: for the
\* month of today the first day through today inclusive with days_in_month
\* the day number of today, for another month the whole calendar month with
\* days_in_month its calendar length; days_tracked is the number of distinct
\* dates of the window with a meal, and every day of the breakdown lies in
\* the window
C25_WindowOfTheMonth ==
    (last.op = "get_monthly_summary" /\ last.db = "up") =>
        LET summary == last.summary
            t == last.target_month
            current == t.year = today.year /\ t.month = today.month
            positions == WindowPositions(last.user_id, t)
            dates == {meals[i].date : i \in positions}
        IN /\ summary.days_in_month =
                 IF current THEN today.day ELSE DaysInMonth(t.year, t.month)
           /\ summary.total_meals = Cardinality(positions)
           /\ summary.total_calories = CaloriesAt(meals, positions)
           /\ summary.days_tracked = Cardinality(dates)
           /\ {summary.daily_breakdown[i].date :
                   i \in 1..Len(summary.daily_breakdown)} = dates

\* the summary of the month of today, asked on a day that is not the last of
\* the month, counts a meal of today and leaves out a meal of user_id dated
\* in another month
C25_Witness ==
    /\ last.op = "get_monthly_summary"
    /\ last.db = "up"
    /\ last.target_month.month = today.month
    /\ today.day < DaysInMonth(today.year, today.month)
    /\ last.summary.days_in_month = today.day
    /\ \E i \in 1..Len(meals) :
          /\ meals[i].user_id = last.user_id
          /\ meals[i].date = isoformat(today)
    /\ \E i \in 1..Len(meals) :
          /\ meals[i].user_id = last.user_id
          /\ fromisoformat(meals[i].date).month # today.month
    /\ last.summary.total_meals < Len(meals)

\* the summary of a month that has ended: the whole month, the meal of its
\* last day included and the meal of the first day of the next month not
C25_WitnessPastMonth ==
    /\ last.op = "get_monthly_summary"
    /\ last.db = "up"
    /\ last.target_month.month # today.month
    /\ last.summary.days_in_month = 31
    /\ \E i \in 1..Len(last.summary.daily_breakdown) :
          fromisoformat(last.summary.daily_breakdown[i].date).day = 31
    /\ \E i \in 1..Len(meals) :
          /\ meals[i].user_id = last.user_id
          /\ meals[i].date = isoformat(today)

\* the calories, in millionths of a kcal, of the foods the resolver resolves:
\* with figures of their own when a food of the list has some, found in the
\* local table otherwise
RECURSIVE ResolvedCalories(_, _)
ResolvedCalories(foods, individual) ==
    IF foods = <<>> THEN 0
    ELSE LET food == Head(foods)
             info == _find_nutrition_info(lower(food.name))
             own == IF individual
                    THEN IF "nutrition" \in DOMAIN food
                         THEN FromTenths(Get(food.nutrition, "calories", 0))
                         ELSE 0
                    ELSE IF info # <<>>
                         THEN info[1].calories
                                  * _estimate_portion_size(lower(food.name),
                                        Get(food, "portion_size",
                                            [numbers |-> <<>>, words |-> {}]))
                                  * Get(food, "confidence", 0)
                         ELSE 0
         IN own + ResolvedCalories(Tail(foods), individual)

\* the positions of the foods the resolver cannot resolve
Unresolved(foods, individual) ==
    {i \in 1..Len(foods) :
        IF individual THEN "nutrition" \notin DOMAIN foods[i]
        ELSE _find_nutrition_info(lower(foods[i].name)) = <<>>}

\* C26: without total_nutrition, the total of a meal is the calories of the
\* resolved foods plus 50 kcal for every unresolved food, in the path of the
\* foods' own figures and in the path of the local table alike, and a meal
\* of unresolved foods only has zero macros
C26_UnresolvedFoodIsFiftyKcal ==
    (/\ last.op = "calculate_calories"
     /\ {"foods"} = DOMAIN last.food_analysis
     /\ \A i \in 1..Len(last.food_analysis.foods) :
           "name" \in DOMAIN last.food_analysis.foods[i]) =>
        LET foods == last.food_analysis.foods
            individual == \E i \in 1..Len(foods) :
                              "nutrition" \in DOMAIN foods[i]
            unresolved == Unresolved(foods, individual)
            result == last.calorie_info
        IN /\ Len(result.unidentified_foods) = Cardinality(unresolved)
           /\ result.total_calories =
                 RoundHalfEven(ResolvedCalories(foods, individual)
                                   + 50 * Micro * Cardinality(unresolved),
                               Micro)
           /\ Cardinality(unresolved) = Len(foods) =>
                 /\ result.breakdown.Proteina = 0
                 /\ result.breakdown.Carbohidratos = 0
                 /\ result.breakdown.Grasas = 0

\* the same in the path of the foods' own figures alone, which the code
\* follows: a food without figures next to one with figures adds 50 kcal
C26_FiftyKcalWithOwnFigures ==
    (/\ last.op = "calculate_calories"
     /\ {"foods"} = DOMAIN last.food_analysis
     /\ \A i \in 1..Len(last.food_analysis.foods) :
           "name" \in DOMAIN last.food_analysis.foods[i]
     /\ \E i \in 1..Len(last.food_analysis.foods) :
           "nutrition" \in DOMAIN last.food_analysis.foods[i]) =>
        LET foods == last.food_analysis.foods
            unresolved == Unresolved(foods, TRUE)
        IN last.calorie_info.total_calories =
               RoundHalfEven(ResolvedCalories(foods, TRUE)
                                 + 50 * Micro * Cardinality(unresolved),
                             Micro)

\* C27: when a request of a user with a goal reads the day back and no
\* other row of the user was committed since its check, the total it reads
\* is the projected_calories of the check; and in every case the total it
\* reads is the sum of the committed meals of the user's day
C27_RereadMatchesProjection ==
    [][\A w \in Workers :
          (/\ inflight[w].pc = "read"
           /\ inflight'[w] = Idle
           /\ last'.op = "analyze_food_photo") =>
             LET r == inflight[w]
                 between == {i \in 1..Len(meals) :
                                /\ meals[i].user_id = r.user_id
                                /\ meals[i].id >= r.checked_at
                                /\ meals[i].id # r.meal_id}
             IN /\ (r.goal_check.has_goal /\ between = {}) =>
                      last'.daily_stats.total_calories
                          = r.goal_check.projected_calories
                /\ last'.daily_stats.total_calories
                       = CaloriesAt(meals,
                                    LedgerPositions(meals, r.user_id, today))]_vars

\* a request checked with a goal against a day that holds a meal already
\* has read the day back, nothing else committed since the check
C27_Witness ==
    /\ last.op = "analyze_food_photo"
    /\ last.goal_check.has_goal
    /\ last.goal_check.current_calories > 0
    /\ last.daily_stats.total_calories = last.goal_check.projected_calories

\* a request whose check was overtaken by the row of the other request has
\* read back more than its check projected
C27_WitnessOvertaken ==
    /\ last.op = "analyze_food_photo"
    /\ last.goal_check.has_goal
    /\ last.daily_stats.total_calories > last.goal_check.projected_calories

\* the sum of a field of the daily summaries of user_id over the first n
\* days of the month of target_month
RECURSIVE SumOfDailySummaries(_, _, _, _)
SumOfDailySummaries(user_id, target_month, n, field) ==
    IF n = 0 THEN 0
    ELSE get_daily_calories(meals, user_id,
                            [target_month EXCEPT !.day = n])[field]
             + SumOfDailySummaries(user_id, target_month, n - 1, field)

\* C28: the monthly summary of every user and month agrees with the daily
\* summaries of the dates of its window: total_calories is the sum of their
\* total_calories, total_meals the sum of their meal_count, and every entry
\* of daily_breakdown carries the calories and meals of the daily summary of
\* its date
C28_MonthlyAgreesWithDaily ==
    (last.op = "get_monthly_summary" /\ last.db = "up") =>
        LET summary == last.summary
            t == last.target_month
            days == IF t.year = today.year /\ t.month = today.month
                    THEN today.day ELSE DaysInMonth(t.year, t.month)
        IN /\ summary.total_calories =
                 SumOfDailySummaries(last.user_id, t, days, "total_calories")
           /\ summary.total_meals =
                 SumOfDailySummaries(last.user_id, t, days, "meal_count")
           /\ \A i \in 1..Len(summary.daily_breakdown) :
                 LET entry == summary.daily_breakdown[i]
                     daily == get_daily_calories(meals, last.user_id,
                                                 fromisoformat(entry.date))
                 IN /\ entry.calories = daily.total_calories
                    /\ entry.meals = daily.meal_count

\* a month of two tracked days, one of them today with two meals
C28_Witness ==
    /\ last.op = "get_monthly_summary"
    /\ last.db = "up"
    /\ last.summary.total_meals = 3
    /\ Len(last.summary.daily_breakdown) = 2
    /\ last.summary.daily_breakdown[2].date = isoformat(today)
    /\ last.summary.daily_breakdown[2].meals = 2
    /\ last.summary.daily_breakdown[2].calories = 800

\* C29: a purge, the one of init_database and the one on demand with any
\* months_to_keep >= 0, keeps every meal dated in the calendar month of
\* today and the goal of every user who has such a meal
C29_PurgeKeepsCurrentMonth ==
    [][last'.op \in {"purge_old_data", "init_database"} =>
          \A i \in 1..Len(meals) :
              (/\ fromisoformat(meals[i].date).year = today.year
               /\ fromisoformat(meals[i].date).month = today.month) =>
                  /\ \E j \in 1..Len(meals') : meals'[j] = meals[i]
                  /\ \A c \in user_config :
                        c.user_id = meals[i].user_id => c \in user_config']_vars

\* a purge with months_to_keep = 0 has deleted a meal of last month and a
\* goal, and a meal of today and the goal of its user are there
C29_Witness ==
    /\ last.op = "purge_old_data"
    /\ last.months_to_keep = 0
    /\ last.success
    /\ last.meals_deleted = 1
    /\ last.configs_deleted = 1
    /\ \E i \in 1..Len(meals) :
          /\ meals[i].date = isoformat(today)
          /\ \E c \in user_config : c.user_id = meals[i].user_id

\* C30: a purge that fails, at the cutoff or at a step on the database,
\* returns success = false with 0 meals and 0 goals deleted and leaves the
\* meals and the goals as they were; and a purge that removes a meal
\* succeeds and leaves no goal of a user without meals
C30_PurgeAllOrNothing ==
    [][last'.op = "purge_old_data" =>
          /\ ~last'.success =>
                /\ last'.meals_deleted = 0
                /\ last'.configs_deleted = 0
                /\ meals' = meals
                /\ user_config' = user_config
          /\ meals' # meals =>
                /\ last'.success
                /\ last'.meals_deleted = Len(meals) - Len(meals')
                /\ user_config' =
                      {c \in user_config :
                          \E i \in 1..Len(meals') :
                              meals'[i].user_id = c.user_id}]_vars

\* a purge with months_to_keep = 0, whose cutoff is a date, has failed while
\* a meal of last month and the goal of a user without meals are stored
C30_Witness ==
    /\ last.op = "purge_old_data"
    /\ last.months_to_keep = 0
    /\ ~last.success
    /\ \E i \in 1..Len(meals) :
          fromisoformat(meals[i].date).month # today.month
    /\ \E c \in user_config :
          \A i \in 1..Len(meals) : meals[i].user_id # c.user_id

\* a purge whose cutoff is no date has failed with a meal of last month stored
C30_WitnessNoCutoff ==
    /\ last.op = "purge_old_data"
    /\ last.months_to_keep = 13
    /\ ~last.success
    /\ \E i \in 1..Len(meals) :
          fromisoformat(meals[i].date).month # today.month

====
